---- MODULE Spec2Model ----
(***************************************************************************)
(* Model of the millwork scope-extraction pipeline: the TOON tabular codec *)
(* (src/src/lib/toon.ts), the output repair and row cleanup, the page      *)
(* grouper and the handler (src/scope-extractor-v14.ts), and the row       *)
(* postprocessor (src/unnamed/part_005, lib/parser/postprocess.ts).        *)
(*                                                                         *)
(* A string is a sequence of symbols.  A symbol is one character (";",     *)
(* ",", a double quote, "#", a space, a newline, a letter) or an           *)
(* indivisible word such as "TOON" or "cols=" that stands for that run of  *)
(* characters; the code's patterns only ever match such a word as a whole. *)
(* The empty string is << >>.                                              *)
(***************************************************************************)
EXTENDS Integers, Sequences, FiniteSets, TLC

VARIABLES
    pc,         \* position of the running operation
    schema,     \* codec: ordered column list handed to encodeToon
    rows,       \* codec: the row objects handed to encodeToon
    toon,       \* the TOON text (encoder output / generator response)
    valid,      \* result of isValidToon on toon ("unset" before the call)
    decoded,    \* result of decodeToon on toon
    response,   \* handler: the generator's response as received
    warnings,   \* handler: the warnings recorded for the response
    doc,        \* the pasted drawing text handed to parsePages
    pages,      \* parsePages' result: [pageNum, text] records
    pageIdx,    \* how many pages groupPagesByRoom's loop has handled
    roomMap,    \* groupPagesByRoom's Map in insertion order: [name, pageNums]
    bestRoom,   \* bestRoom at the end of the last single-room assignment
    roomInfos,  \* groupPagesByRoom's result: [roomName, roomId, pageNums]
    parsed,     \* archDimToInches' result for doc, and inchesToMm of it
    hints,      \* preprocess' result for doc
    maxRetries, \* callAnthropic: the last attempt number of the build in use
    attempt,    \* callAnthropic: the loop counter
    calls,      \* the generator calls made so far, each by its outcome
    waits,      \* the delays callAnthropic has slept, in milliseconds
    outcome,    \* how callAnthropic ended: "pending", "returned" or "thrown"
    roomIndex,  \* page.tsx: how many rooms handleExtract's loop has finished (i)
    retryCount, \* page.tsx: the retries spent on the room in hand
    allRows,    \* page.tsx: the rows collected from the rooms
    allWarnings, \* page.tsx: the warnings collected from the rooms
    roomResults, \* page.tsx: one [room, status, itemCount] per finished room
    fetches,    \* page.tsx: the extract requests sent so far, each by its room
    req,        \* handler: the request's method and mode (its text is doc)
    env,        \* handler: which API keys process.env holds
    res,        \* handler: the response sent, [status, error]; status 0 = none yet
    ctx,        \* handler: the project context, its material legend
    allAssemblies \* v14.2 handler: the assembly summaries collected from the rooms

codecVars == <<schema, rows, toon, valid, decoded, response, warnings>>

hintVars == <<parsed, hints>>

callVars == <<maxRetries, attempt, calls, waits, outcome>>

clientVars == <<roomIndex, retryCount, allRows, allWarnings, roomResults, fetches>>

handlerVars == <<req, env, res, ctx, allAssemblies>>

serviceVars == <<callVars, clientVars, handlerVars>>

groupVars == <<doc, pages, pageIdx, roomMap, bestRoom, roomInfos, hintVars, serviceVars>>

vars == <<pc, codecVars, groupVars>>

\* no generator call has been asked for
CallIdle ==
    /\ maxRetries = 0
    /\ attempt = 0
    /\ calls = << >>
    /\ waits = << >>
    /\ outcome = "pending"

\* the page has not started its room loop
ClientIdle ==
    /\ roomIndex = 0
    /\ retryCount = 0
    /\ allRows = << >>
    /\ allWarnings = << >>
    /\ roomResults = << >>
    /\ fetches = << >>

NoRequest == [method |-> "", mode |-> ""]

NoKeys == [ANTHROPIC_API_KEY |-> FALSE, OPENAI_API_KEY |-> FALSE]

NoResponse == [status |-> 0, error |-> ""]

NoContext == [materialLegend |-> << >>]

\* no request has come in
HandlerIdle ==
    /\ req = NoRequest
    /\ env = NoKeys
    /\ res = NoResponse
    /\ ctx = NoContext
    /\ allAssemblies = << >>

ServiceIdle == CallIdle /\ ClientIdle /\ HandlerIdle

\* no drawing text has been handed over
TextIdle ==
    /\ doc = << >>
    /\ pages = << >>
    /\ pageIdx = 0
    /\ roomMap = << >>
    /\ bestRoom = ""
    /\ roomInfos = << >>
    /\ parsed = << >>
    /\ hints = << >>

\* the page grouper has not run
GroupIdle == TextIdle /\ ServiceIdle


\* F of the value of v, the value taken once
With(v, F(_)) == CHOOSE r \in {F(x) : x \in {v}} : TRUE

\* ─── Strings ────────────────────────────────────────────────────────────

QUOTE == "\""
NL == "\n"
CR == "\r"
SP == " "

\* JavaScript's \s class and the characters String.prototype.trim removes
Whitespace == {SP, NL, CR, "\t"}

\* String.prototype.includes for a one-symbol needle
Includes(s, c) == \E i \in 1..Len(s) : s[i] = c

\* String.prototype.startsWith
StartsWith(s, p) == Len(s) >= Len(p) /\ SubSeq(s, 1, Len(p)) = p

RECURSIVE TrimStart(_)
TrimStart(s) ==
    IF s # << >> /\ Head(s) \in Whitespace THEN TrimStart(Tail(s)) ELSE s

RECURSIVE TrimEnd(_)
TrimEnd(s) ==
    IF s # << >> /\ s[Len(s)] \in Whitespace
    THEN TrimEnd(SubSeq(s, 1, Len(s) - 1)) ELSE s

\* String.prototype.trim
Trim(s) == TrimEnd(TrimStart(s))

\* Array.prototype.join
RECURSIVE Join(_, _)
Join(parts, sep) ==
    IF parts = << >> THEN << >>
    ELSE IF Len(parts) = 1 THEN parts[1]
    ELSE parts[1] \o sep \o Join(Tail(parts), sep)

\* String.prototype.split on a one-symbol separator: always at least one part
Split(s, c) ==
    LET at == {i \in 1..Len(s) : s[i] = c}
        n == Cardinality(at)
        pos(k) == IF k = 0 THEN 0
                  ELSE IF k = n + 1 THEN Len(s) + 1
                  ELSE CHOOSE i \in at : Cardinality({j \in at : j < i}) = k - 1
    IN  [k \in 1..(n + 1) |-> SubSeq(s, pos(k - 1) + 1, pos(k) - 1)]

\* s.replace(/c/g, "")
Remove(s, c) == SelectSeq(s, LAMBDA x : x # c)

\* the symbols of s run together into one word (a column name, an object key)
RECURSIVE Text(_)
Text(s) == IF s = << >> THEN "" ELSE Head(s) \o Text(Tail(s))

\* ─── TOON codec (src/src/lib/toon.ts) ───────────────────────────────────

DEFAULT_SEP == <<";">>

\* s.replace(/"/g, '""')
RECURSIVE DoubleQuotes(_)
DoubleQuotes(s) ==
    IF s = << >> THEN << >>
    ELSE (IF Head(s) = QUOTE THEN <<QUOTE, QUOTE>> ELSE <<Head(s)>>)
         \o DoubleQuotes(Tail(s))

\* s.replace(/""/g, '"'): leftmost, non-overlapping
RECURSIVE UndoubleQuotes(_)
UndoubleQuotes(s) ==
    IF s = << >> THEN << >>
    ELSE IF Len(s) >= 2 /\ s[1] = QUOTE /\ s[2] = QUOTE
         THEN <<QUOTE>> \o UndoubleQuotes(SubSeq(s, 3, Len(s)))
    ELSE <<Head(s)>> \o UndoubleQuotes(Tail(s))

escapeField(raw, sep) ==
    LET needsQuote ==
            \/ (Len(sep) = 1 /\ Includes(raw, sep[1]))
            \/ Includes(raw, NL)
            \/ Includes(raw, CR)
            \/ Includes(raw, QUOTE)
            \/ StartsWith(raw, <<"#">>)
    IN  IF ~needsQuote THEN raw
        ELSE <<QUOTE>> \o DoubleQuotes(raw) \o <<QUOTE>>

unescapeField(s) ==
    IF Len(s) >= 1 /\ s[1] = QUOTE /\ s[Len(s)] = QUOTE
    THEN UndoubleQuotes(SubSeq(s, 2, Len(s) - 1))
    ELSE s

\* `#TOON v=1 sep=${sep} cols=${schema.join(",")}`; a column name is one word
toonHeader(cols, sep) ==
    <<"#", "TOON", SP, "v=1", SP, "sep=">> \o sep \o <<SP, "cols=">>
        \o Join([i \in 1..Len(cols) |-> <<cols[i]>>], <<",">>)

\* r[k] of a row object: a key the row lacks reads as undefined, written ""
Field(r, k) == IF k \in DOMAIN r THEN r[k] ELSE << >>

encodeToon(rs, cols, sep) ==
    LET line(r) == Join([j \in 1..Len(cols) |-> escapeField(Field(r, cols[j]), sep)], sep)
        body == Join([i \in 1..Len(rs) |-> line(rs[i])], <<NL>>)
    IN  toonHeader(cols, sep) \o <<NL>> \o body

\* header.match(/key([^\s]+)/): the run of non-blank symbols after the
\* leftmost key that is followed by one; << >> stands for "no match"
NonBlankRun(s) ==
    LET blanks == {i \in 1..Len(s) : s[i] \in Whitespace}
    IN  IF blanks = {} THEN s
        ELSE SubSeq(s, 1, (CHOOSE i \in blanks : \A j \in blanks : i <= j) - 1)

MatchAfter(s, key) ==
    LET hits == {i \in 1..Len(s) :
                    s[i] = key /\ NonBlankRun(SubSeq(s, i + 1, Len(s))) # << >>}
    IN  IF hits = {} THEN << >>
        ELSE NonBlankRun(SubSeq(s, (CHOOSE i \in hits : \A j \in hits : i <= j) + 1, Len(s)))

\* decodeToon.splitLine: the loop over the characters of one line
RECURSIVE splitLineLoop(_, _, _, _, _)
splitLineLoop(line, sep, i, cur, inQuotes) ==
    IF i > Len(line) THEN <<cur>>
    ELSE LET c == line[i] IN
         IF inQuotes THEN
            IF c = QUOTE THEN
                IF i + 1 <= Len(line) /\ line[i + 1] = QUOTE
                THEN splitLineLoop(line, sep, i + 2, Append(cur, QUOTE), TRUE)
                ELSE splitLineLoop(line, sep, i + 1, cur, FALSE)
            ELSE splitLineLoop(line, sep, i + 1, Append(cur, c), TRUE)
         ELSE IF c = QUOTE THEN splitLineLoop(line, sep, i + 1, cur, TRUE)
         ELSE IF Len(sep) = 1 /\ c = sep[1]
              THEN <<cur>> \o splitLineLoop(line, sep, i + 1, << >>, FALSE)
         ELSE splitLineLoop(line, sep, i + 1, Append(cur, c), FALSE)

splitLine(line, sep) ==
    LET out == splitLineLoop(line, sep, 1, << >>, FALSE)
    IN  [j \in 1..Len(out) |-> unescapeField(out[j])]

\* the object built from one data line: parts[j] ?? ""
lineToRow(parts, cols) ==
    [k \in {cols[j] : j \in 1..Len(cols)} |->
        LET j == CHOOSE jj \in 1..Len(cols) :
                    /\ cols[jj] = k
                    /\ \A j2 \in 1..Len(cols) : cols[j2] = k => j2 <= jj
        IN  IF j <= Len(parts) THEN parts[j] ELSE << >>]

RECURSIVE decodeLines(_, _, _)
decodeLines(lines, cols, sep) ==
    IF lines = << >> THEN << >>
    ELSE LET line == Trim(Head(lines)) IN
         IF line = << >> THEN decodeLines(Tail(lines), cols, sep)
         ELSE <<lineToRow(splitLine(line, sep), cols)>>
              \o decodeLines(Tail(lines), cols, sep)

\* decodeToon: [ok |-> FALSE, error] when it throws, [ok |-> TRUE, rows] otherwise
decodeToon(text) ==
    LET lines == Split(Remove(text, CR), NL)
        header == lines[1]
        colsMatch == MatchAfter(header, "cols=")
        sepMatch == MatchAfter(header, "sep=")
    IN  IF ~StartsWith(header, <<"#", "TOON">>)
        THEN [ok |-> FALSE, error |-> "Invalid TOON header", rows |-> << >>]
        ELSE IF colsMatch = << >> \/ sepMatch = << >>
        THEN [ok |-> FALSE, error |-> "Malformed TOON header", rows |-> << >>]
        ELSE LET parts == Split(colsMatch, ",")
                 cols == [j \in 1..Len(parts) |-> Text(parts[j])]
             IN  [ok |-> TRUE, error |-> "",
                  rows |-> decodeLines(Tail(lines), cols, sepMatch)]

isValidToon(text, expectedHeader) ==
    IF text = << >> THEN FALSE
    ELSE Trim(Split(Remove(text, CR), NL)[1]) = Trim(expectedHeader)

\* ─── Case and numbers ──────────────────────────────────────────────────

\* the words of the model's vocabulary that hold capitals, with their
\* lower case; every other symbol is its own lower case
LowerTable ==
    "EA" :> "ea" @@ "LS" :> "ls" @@ "SF" :> "sf" @@
    "LF" :> "lf" @@ "LOT" :> "lot" @@ "High" :> "high" @@
    "Low" :> "low" @@ "Lobby" :> "lobby" @@ "Laundry" :> "laundry" @@
    "Janitor" :> "janitor" @@ "Unclassified" :> "unclassified" @@ "Service" :> "service" @@
    "Manager" :> "manager" @@ "Reception" :> "reception" @@ "Desk" :> "desk" @@
    "Team" :> "team" @@ "Members" :> "members" @@ "Kids" :> "kids" @@
    "Club" :> "club" @@ "Room" :> "room" @@ "Retail" :> "retail" @@
    "Display" :> "display" @@ "Pool" :> "pool" @@ "Area" :> "area" @@
    "Mens" :> "mens" @@ "Womens" :> "womens" @@ "Vanity" :> "vanity" @@
    "Building" :> "building" @@ "Wide" :> "wide" @@ "Men's" :> "men's" @@
    "Women's" :> "women's" @@ "Locker" :> "locker" @@ "First" :> "first" @@
    "Floor" :> "floor" @@ "PL" :> "pl" @@ "A" :> "a" @@
    "ENLARGED" :> "enlarged" @@ "PLAN" :> "plan" @@ "DETAIL" :> "detail" @@
    "SECTION" :> "section" @@ "JANITOR" :> "janitor" @@ "LAUNDRY" :> "laundry" @@
    "LOBBY" :> "lobby" @@ "LOCKER" :> "locker" @@ "MEN'S" :> "men's" @@
    "WOMEN'S" :> "women's" @@ "NOTES" :> "notes" @@ "General" :> "general" @@
    "Notes" :> "notes" @@ "A7.15" :> "a7.15" @@ "T3.12" :> "t3.12" @@
    "B" :> "b" @@ "C" :> "c" @@ "D" :> "d" @@ "E" :> "e" @@ "F" :> "f" @@
    "G" :> "g" @@ "H" :> "h" @@ "I" :> "i" @@ "J" :> "j" @@ "K" :> "k" @@ "L" :> "l" @@
    "M" :> "m" @@ "N" :> "n" @@ "O" :> "o" @@ "P" :> "p" @@ "Q" :> "q" @@ "R" :> "r" @@
    "S" :> "s" @@ "T" :> "t" @@ "U" :> "u" @@ "V" :> "v" @@ "W" :> "w" @@ "X" :> "x" @@
    "Y" :> "y" @@ "Z" :> "z"

\* String.prototype.toLowerCase, and the /i flag, on one symbol
Lower(w) == IF w \in DOMAIN LowerTable THEN LowerTable[w] ELSE w

LowerStr(s) == [i \in 1..Len(s) |-> Lower(s[i])]

\* pat occurs in s at position i, compared without case (the /i flag)
MatchAtCI(s, i, pat) ==
    /\ i >= 1
    /\ i + Len(pat) - 1 <= Len(s)
    /\ \A k \in 1..Len(pat) : Lower(s[i + k - 1]) = Lower(pat[k])

DigitChars == <<"0", "1", "2", "3", "4", "5", "6", "7", "8", "9">>

IsDigit(c) == \E d \in 1..10 : DigitChars[d] = c

DigitVal(c) == (CHOOSE d \in 1..10 : DigitChars[d] = c) - 1

\* /^\d+$/
IsDigits(s) == s # << >> /\ \A i \in 1..Len(s) : IsDigit(s[i])

RECURSIVE DigitsVal(_)
DigitsVal(s) ==
    IF s = << >> THEN 0
    ELSE 10 * DigitsVal(SubSeq(s, 1, Len(s) - 1)) + DigitVal(s[Len(s)])

\* the leading run of digits of s
RECURSIVE DigitRun(_)
DigitRun(s) ==
    IF s = << >> \/ ~IsDigit(Head(s)) THEN << >>
    ELSE <<Head(s)>> \o DigitRun(Tail(s))

NaN == -1

\* Number(s) of a string: blank text is 0, a decimal numeral its value, any
\* other text NaN (the model's strings hold no sign, point or exponent)
Number(s) ==
    LET t == Trim(s)
    IN  IF t = << >> THEN 0 ELSE IF IsDigits(t) THEN DigitsVal(t) ELSE NaN

\* parseInt(s): the leading numeral after leading blanks, else NaN
parseInt(s) ==
    LET run == DigitRun(TrimStart(s))
    IN  IF run = << >> THEN NaN ELSE DigitsVal(run)

\* String(n) of a non-negative integer
RECURSIVE NumStr(_)
NumStr(n) ==
    IF n < 10 THEN <<DigitChars[n + 1]>>
    ELSE NumStr(n \div 10) \o <<DigitChars[(n % 10) + 1]>>

\* ─── V14 schema (src/unnamed/part_005, lib/toonSchemas.ts) ──────────────

MW_ITEM_SCHEMA_V14 ==
    <<"item_id", "assembly_id", "assembly_name", "section_id",
      "item_type", "description",
      "room", "level", "zone",
      "qty", "unit",
      "length_mm", "width_mm", "height_mm", "depth_mm", "dim_source",
      "material", "material_code", "finish", "finish_code", "edge",
      "hardware_type", "hardware_spec",
      "wbs_code", "sheet_ref", "detail_ref", "confidence", "notes">>

HEADER_V14 == toonHeader(MW_ITEM_SCHEMA_V14, <<";">>)

\* the position of a column in the V14 schema
ColIdx(name) == CHOOSE j \in 1..Len(MW_ITEM_SCHEMA_V14) : MW_ITEM_SCHEMA_V14[j] = name

\* ─── Output repair (src/scope-extractor-v14.ts) ─────────────────────────

VALID_ITEM_TYPES ==
    {"assembly", "base_cabinet", "upper_cabinet", "tall_cabinet", "countertop",
     "transaction_top", "decorative_panel", "trim", "channel", "rubber_base",
     "substrate", "concealed_hinge", "piano_hinge", "grommet",
     "adjustable_shelf", "fixed_shelf", "cpu_shelf", "drawer", "file_drawer",
     "trash_drawer", "rollout_basket", "conduit", "j_box", "equipment_cutout",
     "safe_cabinet", "controls_cabinet", "end_panel", "corner_guard",
     "corner_detail", "stainless_panel", "hanger_support", "trellis",
     "scope_exclusion"}

\* the room names of sanitizeToon's Fix 2 pattern
SanitizeRooms ==
    {<<"Service", SP, "Manager">>, <<"Reception", SP, "Desk">>,
     <<"Team", SP, "Members">>, <<"Kids", SP, "Club">>, <<"Team", SP, "Room">>,
     <<"Unclassified">>, <<"Retail", SP, "Display">>, <<"Laundry">>,
     <<"Janitor">>, <<"Pool", SP, "Area">>, <<"Mens", SP, "Vanity">>,
     <<"Womens", SP, "Vanity">>, <<"Building", SP, "Wide">>}

\* (s.match(/,/g) || []).length
CommaCount(s) == Cardinality({i \in 1..Len(s) : s[i] = ","})

\* /,(EA|LS|SF|LF),|,\d+,|,extracted,|,calculated,/i.test(s)
LooksLikeToonData(s) ==
    \E i \in 1..Len(s) :
        /\ s[i] = ","
        /\ \/ /\ i + 2 <= Len(s)
              /\ Lower(s[i + 1]) \in {"ea", "ls", "sf", "lf", "extracted", "calculated"}
              /\ s[i + 2] = ","
           \/ LET run == DigitRun(SubSeq(s, i + 1, Len(s)))
              IN  /\ run # << >>
                  /\ i + Len(run) + 1 <= Len(s)
                  /\ s[i + Len(run) + 1] = ","

\* where `.*` stops: the first line terminator at or after position from
LineEnd(s, from) ==
    LET ends == {i \in from..Len(s) : s[i] \in {NL, CR}}
    IN  IF ends = {} THEN Len(s) + 1 ELSE CHOOSE i \in ends : \A j \in ends : i <= j

\* s.replace(/[,](?:room|room|...)[,].*/i, ""): cut at the leftmost ",room,"
StripRoomData(s, rooms) ==
    LET hits == {i \in 1..Len(s) :
                    /\ s[i] = ","
                    /\ \E r \in rooms :
                            /\ MatchAtCI(s, i + 1, r)
                            /\ i + Len(r) + 1 <= Len(s)
                            /\ s[i + Len(r) + 1] = ","}
    IN  IF hits = {} THEN s
        ELSE LET i == CHOOSE h \in hits : \A g \in hits : h <= g
                 r == CHOOSE rr \in rooms :
                            /\ MatchAtCI(s, i + 1, rr)
                            /\ i + Len(rr) + 1 <= Len(s)
                            /\ s[i + Len(rr) + 1] = ","
                 e == LineEnd(s, i + Len(r) + 2)
             IN  SubSeq(s, 1, i - 1) \o SubSeq(s, e, Len(s))

\* the body of sanitizeToon's loop for one line
sanitizeLine(line) ==
    LET expectedCols == Len(MW_ITEM_SCHEMA_V14)
        fields == Split(line, ";")
        descIdx == 2
        excess == Len(fields) - expectedCols
        \* fields.slice(descIdx, descIdx + excess + 1): 0-based, end exclusive
        mergedDesc == Join(SubSeq(fields, descIdx + 1, descIdx + excess + 1),
                           <<SP, "-", SP>>)
        fixedFields == SubSeq(fields, 1, descIdx) \o <<mergedDesc>>
                       \o SubSeq(fields, descIdx + excess + 2, Len(fields))
        descField == fields[descIdx + 1]
        cleanDesc == Trim(StripRoomData(descField, SanitizeRooms))
    IN  IF StartsWith(line, <<"#", "TOON">>) \/ Trim(line) = << >> THEN line
        ELSE IF Len(fields) > expectedCols THEN Join(fixedFields, <<";">>)
        ELSE IF /\ Len(fields) = expectedCols
                /\ CommaCount(descField) >= 5
                /\ LooksLikeToonData(descField)
             THEN Join([fields EXCEPT ![descIdx + 1] = cleanDesc], <<";">>)
        ELSE line

sanitizeToon(text) ==
    LET lines == Split(text, NL)
    IN  Join([i \in 1..Len(lines) |-> sanitizeLine(lines[i])], <<NL>>)

\* ─── Row cleanup (src/scope-extractor-v14.ts, cleanupRows) ──────────────

\* s.length: the characters of all symbols of s
RECURSIVE StrLen(_)
StrLen(s) == IF s = << >> THEN 0 ELSE Len(Head(s)) + StrLen(Tail(s))

\* VALID_ITEM_TYPES.has(s)
IsValidItemType(s) == Len(s) = 1 /\ s[1] \in VALID_ITEM_TYPES

\* the keywords of cleanupRows' patterns that occur inside one (lower-case)
\* word of the model's vocabulary; "a.*b" says a occurs before b in the word
Kws(w) ==
    CASE w = "rubber" -> {"rubber"} [] w = "base" -> {"base"}
      [] w = "floor" -> {"floor"} [] w = "counter" -> {"counter"}
      [] w = "shelf" -> {"shelf", "\\bshelf\\b"} [] w = "panel" -> {"panel"}
      [] w = "cabinet" -> {"cabinet"} [] w = "locker" -> {"locker"}
      [] w = "towel" -> {"towel"} [] w = "bar" -> {"bar"}
      [] w = "mirror" -> {"mirror"} [] w = "rod" -> {"rod"}
      [] w = "assembly" -> {"assembly"}
      [] w = "base_cabinet" -> {"base", "cabinet"}
      [] w \in {"upper_cabinet", "tall_cabinet", "safe_cabinet", "controls_cabinet"}
            -> {"cabinet"}
      [] w = "countertop" -> {"counter"}
      [] w \in {"decorative_panel", "end_panel", "stainless_panel"} -> {"panel"}
      [] w = "trim" -> {"trim"} [] w = "channel" -> {"channel"}
      [] w = "rubber_base" -> {"rubber", "base", "rubber.*base"}
      [] w = "substrate" -> {"substrate", "sub"}
      [] w \in {"concealed_hinge", "piano_hinge"} -> {"hinge"}
      [] w = "grommet" -> {"grommet"}
      [] w = "adjustable_shelf"
            -> {"adjust", "adjustable", "shelf", "adjust.*shelf", "adjustable.*shelf"}
      [] w = "fixed_shelf" -> {"shelf"}
      [] w = "cpu_shelf" -> {"cpu", "shelf", "cpu.*shelf"}
      [] w \in {"drawer", "file_drawer", "trash_drawer"} -> {"drawer"}
      [] w = "conduit" -> {"conduit"} [] w = "j_box" -> {"j.?box"}
      [] w = "trellis" -> {"trellis"}
      [] OTHER -> {}

\* /k/i.test(s)
HasKw(s, k) == \E i \in 1..Len(s) : k \in Kws(Lower(s[i]))

\* /a.*b/i.test(s)
HasKwThen(s, a, b) ==
    \/ \E i \in 1..Len(s) : \E j \in (i + 1)..Len(s) :
            a \in Kws(Lower(s[i])) /\ b \in Kws(Lower(s[j]))
    \/ HasKw(s, a \o ".*" \o b)

HasAnyKw(s, ks) == \E k \in ks : HasKw(s, k)

\* Pattern C: the item type inferred from the description
inferTypeC(d) ==
    IF HasKw(d, "counter") THEN "countertop"
    ELSE IF HasAnyKw(d, {"panel", "3form", "frp"}) THEN "decorative_panel"
    ELSE IF HasKwThen(d, "adjust", "shelf") THEN "adjustable_shelf"
    ELSE IF HasAnyKw(d, {"shelf", "cpu"}) THEN "fixed_shelf"
    ELSE IF HasKwThen(d, "rubber", "base") \/ HasKwThen(d, "base", "rubber") THEN "rubber_base"
    ELSE IF HasKw(d, "channel") THEN "channel"
    ELSE IF HasKw(d, "trim") THEN "trim"
    ELSE IF HasKw(d, "substrate") \/ HasKwThen(d, "plywood", "sub") THEN "substrate"
    ELSE IF HasAnyKw(d, {"j.?box", "junction"}) THEN "j_box"
    ELSE IF HasKw(d, "conduit") THEN "conduit"
    ELSE IF HasKw(d, "grommet") THEN "grommet"
    ELSE IF HasKw(d, "hinge") THEN "piano_hinge"
    ELSE IF HasAnyKw(d, {"cabinet", "drawer"}) THEN "base_cabinet"
    ELSE IF HasKw(d, "assembly") THEN "assembly"
    ELSE IF HasKw(d, "rod") THEN "scope_exclusion"
    ELSE IF HasAnyKw(d, {"printer", "monitor", "cctv", "telephone", "terminal",
                         "pos\\b", "scanner"}) THEN "scope_exclusion"
    ELSE "assembly"

\* Pattern B: the item type inferred from item type and description, or
\* keep when no keyword matches
inferTypeB(c, keep) ==
    IF HasKwThen(c, "rubber", "base") \/ HasKwThen(c, "floor", "base") THEN <<"rubber_base">>
    ELSE IF HasKwThen(c, "adjustable", "shelf") THEN <<"adjustable_shelf">>
    ELSE IF HasKw(c, "\\bshelf\\b") \/ HasKwThen(c, "cpu", "shelf") THEN <<"fixed_shelf">>
    ELSE IF HasKw(c, "channel") THEN <<"channel">>
    ELSE IF HasKw(c, "j.?box") THEN <<"j_box">>
    ELSE IF HasAnyKw(c, {"panel", "3form", "frp"}) THEN <<"decorative_panel">>
    ELSE IF HasKw(c, "grommet") THEN <<"grommet">>
    ELSE IF HasKw(c, "hinge") THEN <<"piano_hinge">>
    ELSE IF HasKw(c, "conduit") THEN <<"conduit">>
    ELSE IF HasKw(c, "trim") THEN <<"trim">>
    ELSE IF HasAnyKw(c, {"substrate", "plywood"}) THEN <<"substrate">>
    ELSE IF HasKw(c, "counter") THEN <<"countertop">>
    ELSE IF HasAnyKw(c, {"locker", "cabinet"}) THEN <<"base_cabinet">>
    ELSE IF \/ HasKwThen(c, "towel", "bar") \/ HasKw(c, "hook")
            \/ HasKwThen(c, "coat", "rack") \/ HasKw(c, "accessory")
         THEN <<"scope_exclusion">>
    ELSE IF HasKw(c, "mirror") THEN <<"scope_exclusion">>
    ELSE IF \/ HasKwThen(c, "grab", "bar") \/ HasKwThen(c, "soap", "dispenser")
            \/ HasKwThen(c, "paper", "towel") \/ HasKwThen(c, "hand", "dryer")
         THEN <<"scope_exclusion">>
    ELSE IF HasKw(c, "trellis") THEN <<"trellis">>
    ELSE keep

\* /^(w1|w2|...)$/i.test(s)
IsWordCI(s, ws) == Len(s) = 1 /\ Lower(s[1]) \in ws

UnitWords == {"ea", "lf", "sf", "lot", "ls"}
ConfidenceWords == {"high", "medium", "low"}
DimSourceWords == {"extracted", "calculated", "unknown"}

\* Pattern A: section_id holds a valid item type, fields shifted right by 2
patternA(row, itemType) ==
    LET realUnit == row.qty
        realWidth == row.unit
        realDepth == row.width_mm
        n == parseInt(realUnit)
        qty == IF realUnit \in {<<"EA">>, <<"LS">>, <<"LOT">>, <<"SF">>, <<"LF">>}
               THEN 1 ELSE IF n = NaN \/ n = 0 THEN 1 ELSE n
        r1 == [row EXCEPT !.description = itemType,
                          !.item_type = Trim(row.section_id),
                          !.section_id = << >>,
                          !.qty = NumStr(qty),
                          !.unit = <<"EA">>]
        r2 == IF realWidth # << >> /\ Number(realWidth) # NaN
              THEN [r1 EXCEPT !.width_mm = NumStr(Number(realWidth))] ELSE r1
    IN  IF realDepth # << >> /\ Number(realDepth) # NaN
        THEN [r2 EXCEPT !.depth_mm = NumStr(Number(realDepth))] ELSE r2

\* Pattern C: item_type repeats the room name, section_id holds the description
patternC(row) ==
    LET realDesc == row.section_id
        realWidth == row.qty
        realMaterial == row.depth_mm
        r1 == [row EXCEPT !.item_type = <<inferTypeC(LowerStr(realDesc))>>,
                          !.description = realDesc,
                          !.section_id = << >>]
        r2 == IF realWidth # << >> /\ Number(realWidth) # NaN /\ Number(realWidth) > 10
              THEN [r1 EXCEPT !.width_mm = NumStr(Number(realWidth))] ELSE r1
        r3 == [r2 EXCEPT !.qty = <<"1">>, !.unit = <<"EA">>]
    IN  IF realMaterial # << >> /\ Number(realMaterial) = NaN
        THEN [r3 EXCEPT !.material = realMaterial, !.depth_mm = << >>] ELSE r3

\* Pattern B: swap a valid type found in description, else infer from keywords
patternB(row, itemType) ==
    LET desc == Trim(row.description)
        combined == LowerStr(itemType \o <<SP>> \o desc)
        r1 == [row EXCEPT !.item_type = inferTypeB(combined, row.item_type)]
    IN  IF IsValidItemType(desc)
        THEN [row EXCEPT !.description = itemType, !.item_type = desc]
        ELSE IF desc = row.room \/ desc = << >>
             THEN [r1 EXCEPT !.description = itemType] ELSE r1

\* the column-shift repairs, tried in the order A, C, B
repairShift(row) ==
    LET itemType == Trim(row.item_type)
    IN  IF itemType = << >> \/ IsValidItemType(itemType) THEN row
        ELSE IF row.section_id # << >> /\ IsValidItemType(Trim(row.section_id))
             THEN patternA(row, itemType)
        ELSE IF /\ itemType = row.room
                /\ row.section_id # << >>
                /\ StrLen(row.section_id) > 2
             THEN patternC(row)
        ELSE patternB(row, itemType)

\* a confidence level written into notes is swapped with confidence
fixConfidenceNotes(row) ==
    IF /\ row.notes # << >>
       /\ IsWordCI(row.notes, ConfidenceWords)
       /\ ~IsWordCI(row.confidence, ConfidenceWords)
    THEN [row EXCEPT !.confidence = row.notes, !.notes = row.confidence]
    ELSE row

\* a dim_source value in a dimension column is cleared
cleanDims(row) ==
    LET clean(v) == IF v \in {<<"extracted">>, <<"calculated">>, <<"unknown">>}
                    THEN << >> ELSE v
    IN  [row EXCEPT !.width_mm = clean(row.width_mm),
                    !.depth_mm = clean(row.depth_mm),
                    !.height_mm = clean(row.height_mm)]

TallCabinetMaxHeight == 914

reclassifyTall(row) ==
    IF /\ row.item_type = <<"tall_cabinet">>
       /\ row.height_mm # << >>
       /\ Number(row.height_mm) > 0
       /\ Number(row.height_mm) <= TallCabinetMaxHeight
    THEN [row EXCEPT !.item_type = <<"base_cabinet">>]
    ELSE row

MaxMaterialCodeLen == 25

cleanMaterialCode(row) ==
    LET mc == Trim(row.material_code)
    IN  IF row.material_code = << >> THEN row
        ELSE IF IsWordCI(mc, ConfidenceWords)
             THEN [row EXCEPT !.confidence = IF row.confidence = << >> THEN mc ELSE @,
                              !.material_code = << >>]
        ELSE IF StrLen(mc) > MaxMaterialCodeLen
             THEN [row EXCEPT !.material_code = << >>]
        ELSE row

cleanMaterial(row) ==
    IF row.material # << >> /\ IsWordCI(Trim(row.material), ConfidenceWords)
    THEN [row EXCEPT !.confidence = IF row.confidence = << >> THEN Trim(row.material) ELSE @,
                     !.material = << >>]
    ELSE row

\* /^\d+['-]/.test(s) || /^\d+mm$/i.test(s) || /^\d+$/.test(s)
LooksLikeDimension(s) ==
    LET run == DigitRun(s)
        rest == SubSeq(s, Len(run) + 1, Len(s))
    IN  /\ run # << >>
        /\ \/ rest = << >>
           \/ Head(rest) \in {"'", "-"}
           \/ LowerStr(rest) \in {<<"mm">>, <<"m", "m">>}

cleanSheetRef(row) ==
    LET sr == Trim(row.sheet_ref)
    IN  IF row.sheet_ref = << >> THEN row
        ELSE IF IsWordCI(sr, ConfidenceWords)
             THEN [row EXCEPT !.confidence = IF row.confidence = << >> THEN sr ELSE @,
                              !.sheet_ref = << >>]
        ELSE IF LooksLikeDimension(sr) THEN [row EXCEPT !.sheet_ref = << >>]
        ELSE row

\* the room names of cleanupRows' description pattern
CleanupRooms ==
    SanitizeRooms \cup
    {<<"Men's", SP, "Locker", SP, "Room">>, <<"Women's", SP, "Locker", SP, "Room">>,
     <<"First", SP, "Floor">>}

\* s.replace(/;/g, ",")
ReplaceSemicolons(s) == [i \in 1..Len(s) |-> IF s[i] = ";" THEN "," ELSE s[i]]

\* the commas from position i on
RECURSIVE CommaRun(_, _)
CommaRun(s, i) ==
    IF i > Len(s) \/ s[i] # "," THEN 0 ELSE 1 + CommaRun(s, i + 1)

\* s.replace(/,{2,}\d*,(?:EA|LF|SF|LOT),?\d*.*$/i, "")
StripTrailingFragment(s) ==
    LET matchesAt(i) ==
            \E n \in 2..CommaRun(s, i) :
                LET d == DigitRun(SubSeq(s, i + n, Len(s)))
                    p == i + n + Len(d)
                IN  /\ p + 1 <= Len(s)
                    /\ s[p] = ","
                    /\ Lower(s[p + 1]) \in {"ea", "lf", "sf", "lot"}
                    /\ LineEnd(s, p + 2) = Len(s) + 1
        hits == {i \in 1..Len(s) : matchesAt(i)}
    IN  IF hits = {} THEN s
        ELSE SubSeq(s, 1, (CHOOSE h \in hits : \A g \in hits : h <= g) - 1)

cleanDescription(row) ==
    IF row.description = << >> THEN row
    ELSE [row EXCEPT !.description =
            Trim(StripTrailingFragment(StripRoomData(ReplaceSemicolons(@), CleanupRooms)))]

\* Pattern D: the room column holds a unit, the row is garbled
isGarbled(row) == IsWordCI(Trim(row.room), UnitWords)

\* the map callback of cleanupRows
cleanupRow(row) ==
    IF isGarbled(row) THEN row
    ELSE cleanDescription(cleanSheetRef(cleanMaterial(cleanMaterialCode(
            reclassifyTall(cleanDims(fixConfidenceNotes(repairShift(row))))))))

\* the filter callback of cleanupRows, given the row as it entered the map
keepRow(orig, row) ==
    /\ ~isGarbled(orig)
    /\ ~(row.description = << >> /\ row.item_type = << >>)
    /\ ~(row.description # << >> /\
         IsWordCI(Trim(row.description),
                  {"ea", "ls", "sf", "lf"} \cup DimSourceWords \cup ConfidenceWords))

RECURSIVE cleanupRows(_)
cleanupRows(rs) ==
    IF rs = << >> THEN << >>
    ELSE LET r == cleanupRow(Head(rs))
         IN  (IF keepRow(Head(rs), r) THEN <<r>> ELSE << >>) \o cleanupRows(Tail(rs))

\* ─── Postprocessor (src/unnamed/part_005, lib/parser/postprocess.ts) ───

KNOWN_DEFAULTS_MM ==
    <<[w |-> 610, h |-> 876, d |-> 610], [w |-> 762, h |-> 762, d |-> 305],
      [w |-> 610, h |-> 762, d |-> 305], [w |-> 914, h |-> 876, d |-> 610]>>

\* Number(s) || dflt
NumberOr(s, dflt) ==
    LET n == Number(s) IN IF n = NaN \/ n = 0 THEN dflt ELSE n

Abs(x) == IF x < 0 THEN 0 - x ELSE x

isDefaultDimension(row) ==
    LET w == NumberOr(row.width_mm, 0)
        h == NumberOr(row.height_mm, 0)
        d == NumberOr(row.depth_mm, 0)
    IN  /\ ~(w = 0 /\ h = 0 /\ d = 0)
        /\ \E i \in 1..Len(KNOWN_DEFAULTS_MM) :
                /\ Abs(w - KNOWN_DEFAULTS_MM[i].w) < 5
                /\ Abs(h - KNOWN_DEFAULTS_MM[i].h) < 5
                /\ Abs(d - KNOWN_DEFAULTS_MM[i].d) < 5

\* the annotations the postprocessor appends to notes, each one symbol
DefaultDimsNote == <<SP, "[DEFAULT DIMS DETECTED - needs manual measurement]">>
WidthNote == <<SP, "[Width < 2in]">>
HeightNote == <<SP, "[Height > 10ft]">>
LengthNote == <<SP, "[Length > 40ft]">>

\* row.item_id || "row-" + idx, idx counted from 0
ItemIdOf(row, idx) ==
    IF row.item_id # << >> THEN row.item_id ELSE <<"row-">> \o NumStr(idx)

\* the callback of validateDimensions' map: the row it returns
validateRow(row) ==
    LET flagged == IF isDefaultDimension(row)
                   THEN [row EXCEPT !.dim_source = <<"default_FLAGGED">>,
                                    !.confidence = <<"low">>,
                                    !.notes = @ \o DefaultDimsNote]
                   ELSE row
        w == NumberOr(row.width_mm, 0)
        h == NumberOr(row.height_mm, 0)
        l == NumberOr(row.length_mm, 0)
        r1 == IF w > 0 /\ w < 50 THEN [flagged EXCEPT !.notes = @ \o WidthNote] ELSE flagged
        r2 == IF h > 3048 THEN [r1 EXCEPT !.notes = @ \o HeightNote] ELSE r1
    IN  IF l > 12192 THEN [r2 EXCEPT !.notes = @ \o LengthNote] ELSE r2

\* the warnings the same callback pushes, as <<kind, item id>>
validateWarnings(row, idx) ==
    LET w == NumberOr(row.width_mm, 0)
        h == NumberOr(row.height_mm, 0)
        l == NumberOr(row.length_mm, 0)
        id == ItemIdOf(row, idx)
    IN  (IF isDefaultDimension(row) THEN <<<<"default dimensions", id>>>> ELSE << >>)
        \o (IF w > 0 /\ w < 50 THEN <<<<"width", id>>>> ELSE << >>)
        \o (IF h > 3048 THEN <<<<"height", id>>>> ELSE << >>)
        \o (IF l > 12192 THEN <<<<"length", id>>>> ELSE << >>)

RECURSIVE Concat(_)
Concat(ss) == IF ss = << >> THEN << >> ELSE Head(ss) \o Concat(Tail(ss))

validateDimensions(rs) ==
    [rows |-> [i \in 1..Len(rs) |-> validateRow(rs[i])],
     warnings |-> Concat([i \in 1..Len(rs) |-> validateWarnings(rs[i], i - 1)])]

makeDedupeKey(row) ==
    Join([k \in 1..8 |->
            Trim(LowerStr(row[<<"item_type", "assembly_id", "section_id", "width_mm",
                                "height_mm", "depth_mm", "material_code", "room">>[k]]))],
         <<"|">>)

RECURSIVE SumQty(_)
SumQty(group) ==
    IF group = << >> THEN 0 ELSE NumberOr(Head(group).qty, 1) + SumQty(Tail(group))

MergeNote(n) == <<SP, "[Merged", SP>> \o NumStr(n) \o <<SP, "duplicate", SP, "rows]">>

\* the merged row of a group of more than one row
mergeGroup(group) ==
    [group[1] EXCEPT !.qty = NumStr(SumQty(group)),
                     !.notes = @ \o MergeNote(Len(group))]

\* the numbers of a finite set in increasing order
Ascending(S) ==
    [k \in 1..Cardinality(S) |-> CHOOSE i \in S : Cardinality({j \in S : j < i}) = k - 1]

deduplicateRows(rs) ==
    LET key == [i \in 1..Len(rs) |-> makeDedupeKey(rs[i])]
        firsts == Ascending({i \in 1..Len(rs) : \A j \in 1..(i - 1) : key[j] # key[i]})
        groupOf(i) == LET idx == Ascending({j \in 1..Len(rs) : key[j] = key[i]})
                      IN  [k \in 1..Len(idx) |-> rs[idx[k]]]
        out(i) == IF Len(groupOf(i)) = 1 THEN groupOf(i)[1] ELSE mergeGroup(groupOf(i))
        warn(i) == IF Len(groupOf(i)) > 2
                   THEN <<<<"merged", groupOf(i)[1].item_id>>>> ELSE << >>
    IN  [rows |-> [k \in 1..Len(firsts) |-> out(firsts[k])],
         removed |-> Len(rs) - Len(firsts),
         warnings |-> Concat([k \in 1..Len(firsts) |-> warn(firsts[k])])]

\* the words of calculateAreas that occur inside one lower-case symbol
TypeWords(w) ==
    CASE w = "countertop" -> {"countertop"}
      [] w \in {"base", "base_cabinet", "rubber_base"} -> {"base"}
      [] w \in {"panel", "decorative_panel", "end_panel", "stainless_panel"} -> {"panel"}
      [] w = "trim" -> {"trim"} [] w = "channel" -> {"channel"}
      [] OTHER -> {}

\* String(row.item_type || "").toLowerCase().includes(word)
TypeIncludes(row, word) ==
    \E i \in 1..Len(row.item_type) : word \in TypeWords(Lower(row.item_type[i]))

\* x.toFixed(1) of the quotient num / den
Fixed1(num, den) ==
    LET t == (20 * num + den) \div (2 * den)
    IN  NumStr(t \div 10) \o <<".">> \o NumStr(t % 10)

CalcNote(num, den, unit) == <<SP, "[Calc:", SP>> \o Fixed1(num, den) \o <<SP, unit>>

\* a calculator that stores the linear footage in the length column
convertLength(row) ==
    IF NumberOr(row.length_mm, 0) > 0
    THEN [row EXCEPT !.length_mm = Fixed1(10 * NumberOr(row.length_mm, 0), 3048)]
    ELSE row

\* the callback of calculateAreas' map
calculateArea(row) ==
    LET l == NumberOr(row.length_mm, 0)
        w == NumberOr(row.width_mm, 0)
        h == NumberOr(row.height_mm, w)
        r1 == IF TypeIncludes(row, "countertop") /\ l > 0 /\ w > 0
              THEN [row EXCEPT !.notes = @ \o CalcNote(l * w, 92903, "SF]")] ELSE row
        r2 == IF (TypeIncludes(row, "panel") \/ TypeIncludes(row, "3form")) /\ l > 0 /\ h > 0
              THEN [r1 EXCEPT !.notes = @ \o CalcNote(l * h, 92903, "SF]")] ELSE r1
    IN  IF /\ \E t \in {"trim", "channel", "molding", "base"} : TypeIncludes(row, t)
           /\ l > 0
        THEN [r2 EXCEPT !.notes = @ \o CalcNote(10 * l, 3048, "LF]")] ELSE r2

calculateAreas(rs) == [i \in 1..Len(rs) |-> calculateArea(rs[i])]

\* the scoring of scoreConfidence's callback applied to every row, also to one
\* whose confidence is already set
scoreEveryRow(row) ==
    LET B(b) == IF b THEN 1 ELSE 0
        score == B(StrLen(row.item_type) > 2)
                 + B(row.width_mm # << >> \/ row.height_mm # << >>
                     \/ row.length_mm # << >>)
                 + B(row.material_code # << >> \/ row.material # << >>)
                 + B(row.sheet_ref # << >>)
                 + B(StrLen(row.description) > 5)
    IN  [row EXCEPT !.confidence =
            IF 10 * score >= 8 * 5 THEN <<"high">>
            ELSE IF 10 * score >= 5 * 5 THEN <<"medium">> ELSE <<"low">>]

\* the callback of scoreConfidence's map
scoreRow(row) ==
    IF row.confidence # << >> THEN row
    ELSE LET B(b) == IF b THEN 1 ELSE 0
             score == B(StrLen(row.item_type) > 2)
                      + B(row.width_mm # << >> \/ row.height_mm # << >>
                          \/ row.length_mm # << >>)
                      + B(row.material_code # << >> \/ row.material # << >>)
                      + B(row.sheet_ref # << >>)
                      + B(StrLen(row.description) > 5)
         IN  [row EXCEPT !.confidence =
                 IF 10 * score >= 8 * 5 THEN <<"high">>
                 ELSE IF 10 * score >= 5 * 5 THEN <<"medium">> ELSE <<"low">>]

scoreConfidence(rs) == [i \in 1..Len(rs) |-> scoreRow(rs[i])]

\* postprocess: its rows and warnings
postprocess(rs) ==
    With(validateDimensions(rs), LAMBDA v :
    With(deduplicateRows(v.rows), LAMBDA d :
        [rows |-> scoreConfidence(calculateAreas(d.rows)),
         warnings |-> v.warnings \o d.warnings,
         removed |-> d.removed]))

\* ─── Bounded inputs ────────────────────────────────────────────────────

MaxFieldLen == 1
MaxRows == 2
MaxCols == 2

\* the symbols the escaping rule is about, and one plain letter
FieldAlphabet == {"a", ";", QUOTE, NL, "#"}

SeqsUpTo(S, n) == UNION {[1..k -> S] : k \in 0..n}

FieldValues == SeqsUpTo(FieldAlphabet, MaxFieldLen)

ColumnNames == <<"c1", "c2", "c3", "c4">>

Schemas == {SubSeq(ColumnNames, 1, n) : n \in 1..MaxCols}

RowsOver(cols) == [{cols[j] : j \in 1..Len(cols)} -> FieldValues]

NoResult == [ok |-> FALSE, error |-> "unset", rows |-> << >>]

\* ─── Codec round trip: encodeToon, then decodeToon ─────────────────────

InitCodec ==
    /\ pc = "encode"
    /\ schema \in Schemas
    /\ rows \in SeqsUpTo(RowsOver(schema), MaxRows)
    /\ toon = << >>
    /\ valid = "unset"
    /\ decoded = NoResult
    /\ response = << >>
    /\ warnings = << >>
    /\ GroupIdle

Encode ==
    /\ pc = "encode"
    /\ toon' = encodeToon(rows, schema, DEFAULT_SEP)
    /\ pc' = "decode"
    /\ UNCHANGED <<groupVars, schema, rows, valid, decoded, response, warnings>>

Decode ==
    /\ pc = "decode"
    /\ decoded' = decodeToon(toon)
    /\ pc' = "done"
    /\ UNCHANGED <<groupVars, schema, rows, toon, valid, response, warnings>>

NextCodec == Encode \/ Decode

SpecCodec == InitCodec /\ [][NextCodec]_vars

\* C1: round-trip law: decoding what encodeToon wrote returns exactly the
\* rows that were encoded, in the same order, with the same field values.
C1_RoundTrip ==
    pc = "done" => (decoded.ok /\ decoded.rows = rows)

\* ─── Header validation: isValidToon, then decodeToon ───────────────────

\* the text before the first line break
FirstLine(s) == Split(s, NL)[1]

EditAlphabet == {SP, "x", ","}

\* the expected header and every text one symbol away from it
HeaderEdits(h) ==
    {h}
    \cup {SubSeq(h, 1, p) \o <<x>> \o SubSeq(h, p + 1, Len(h)) :
                p \in 0..Len(h), x \in EditAlphabet}
    \cup {SubSeq(h, 1, p - 1) \o SubSeq(h, p + 1, Len(h)) : p \in 1..Len(h)}
    \cup {SubSeq(h, 1, p - 1) \o <<x>> \o SubSeq(h, p + 1, Len(h)) :
                p \in 1..Len(h), x \in EditAlphabet}

ResponseBodies == {<< >>, <<NL, "a", ";", "a">>, <<NL, "a", NL, "a", ";", "a", ";", "a">>}

InitHeader ==
    /\ pc = "validate"
    /\ schema \in Schemas
    /\ rows = << >>
    /\ \E h \in HeaderEdits(toonHeader(schema, DEFAULT_SEP)), b \in ResponseBodies :
            toon = h \o b
    /\ valid = "unset"
    /\ decoded = NoResult
    /\ response = << >>
    /\ warnings = << >>
    /\ GroupIdle

Validate ==
    /\ pc = "validate"
    /\ valid' = isValidToon(toon, toonHeader(schema, DEFAULT_SEP))
    /\ pc' = "decode"
    /\ UNCHANGED <<groupVars, schema, rows, toon, decoded, response, warnings>>

NextHeader == Validate \/ Decode

SpecHeader == InitHeader /\ [][NextHeader]_vars

\* C2: strict header validation: an input whose first line is not exactly
\* the expected header is accepted neither by isValidToon nor by decodeToon.
C2_StrictHeader ==
    (pc = "done" /\ FirstLine(toon) # toonHeader(schema, DEFAULT_SEP))
        => (valid = FALSE /\ ~decoded.ok)

\* the two halves of C2, each refuted on its own
C2_isValidToonExact ==
    (pc \in {"decode", "done"} /\ FirstLine(toon) # toonHeader(schema, DEFAULT_SEP))
        => valid = FALSE

C2_decodeToonExact ==
    (pc = "done" /\ FirstLine(toon) # toonHeader(schema, DEFAULT_SEP))
        => ~decoded.ok

\* ─── Output repair chain of the handler: sanitizeToon, isValidToon ─────
\* ─── (with the fence fallback), decodeToon, cleanupRows ────────────────

\* the markdown fence, three backticks, as one symbol
FENCE == "<fence>"

\* toon.match(/FENCE(?:toon|csv|text)?\s*\n?(#TOON[\s\S]*?)FENCE/): group 1 of the
\* leftmost match, << >> when there is none
RECURSIVE SkipBlanks(_, _)
SkipBlanks(s, i) ==
    IF i <= Len(s) /\ s[i] \in Whitespace THEN SkipBlanks(s, i + 1) ELSE i

FenceBody(s) ==
    LET bodyStart(i) ==
            SkipBlanks(s, IF i + 1 <= Len(s) /\ s[i + 1] \in {"toon", "csv", "text"}
                          THEN i + 2 ELSE i + 1)
        closes(i) == {k \in (bodyStart(i) + 2)..Len(s) : s[k] = FENCE}
        opens == {i \in 1..Len(s) :
                    /\ s[i] = FENCE
                    /\ bodyStart(i) + 1 <= Len(s)
                    /\ s[bodyStart(i)] = "#"
                    /\ s[bodyStart(i) + 1] = "TOON"
                    /\ closes(i) # {}}
    IN  IF opens = {} THEN << >>
        ELSE LET i == CHOOSE o \in opens : \A o2 \in opens : o <= o2
                 k == CHOOSE c \in closes(i) : \A c2 \in closes(i) : c <= c2
             IN  SubSeq(s, bodyStart(i), k - 1)

\* handler lines 913-916: the text that is validated the second time
unfence(text) ==
    IF ~isValidToon(text, HEADER_V14) /\ FenceBody(text) # << >>
    THEN sanitizeToon(Trim(FenceBody(text)))
    ELSE text

V14Columns == {MW_ITEM_SCHEMA_V14[j] : j \in 1..Len(MW_ITEM_SCHEMA_V14)}

\* a V14 row with the given fields and every other field empty
RowWith(over) == [c \in V14Columns |-> IF c \in DOMAIN over THEN over[c] ELSE << >>]

\* the fields of a row in column order, as the generator writes them
RowFields(r) == [j \in 1..Len(MW_ITEM_SCHEMA_V14) |-> r[MW_ITEM_SCHEMA_V14[j]]]

MaxExcess == 2
MaxMissing == 2

\* rows the generator writes well
GoodRows ==
    {RowWith([item_type |-> <<t>>, description |-> d, room |-> <<"Lobby">>,
              qty |-> q, unit |-> <<"EA">>, notes |-> <<"x">>]) :
        t \in {"countertop", "tall_cabinet"},
        d \in {<<"desk">>, <<"desk", SP, "top">>},
        q \in {<<"1">>, <<"2">>}}

\* the pieces a description falls into when the generator writes k
\* semicolons inside it
DescriptionPieces == {<<"desk">>, <<"top">>, << >>}

\* field lists with k fields too many: the description of a good row
\* written with k unquoted semicolons
ExcessFieldLists ==
    {SubSeq(RowFields(r), 1, ColIdx("description") - 1) \o ps
        \o SubSeq(RowFields(r), ColIdx("description") + 1, Len(MW_ITEM_SCHEMA_V14)) :
        r \in {RowWith([item_type |-> <<"countertop">>, assembly_name |-> <<"Desk">>,
                        room |-> <<"Lobby">>, qty |-> <<"1">>, notes |-> <<"x">>])},
        ps \in UNION {[1..(k + 1) -> DescriptionPieces] : k \in 1..MaxExcess}}

\* field lists with m trailing fields left out
ShortFieldLists ==
    {SubSeq(RowFields(r), 1, Len(MW_ITEM_SCHEMA_V14) - m) :
        r \in GoodRows, m \in 1..MaxMissing}

\* comma-separated record data after the text of the third field
CommaData ==
    {<<"desk", ",", "Laundry", ",", "1", ",", ",", ",", "EA", ",">>,
     <<"desk", ",", "top", ",", "1", ",", ",", ",", "EA", ",">>,
     <<"desk", ",", ",", ",", ",", ",">>}

CommaFieldLists ==
    {[RowFields(r) EXCEPT ![3] = c] \o extra :
        r \in {RowWith([item_type |-> <<"countertop">>, description |-> <<"desk">>,
                        room |-> <<"Lobby">>])},
        c \in CommaData,
        extra \in {<< >>, << << >> >>, << <<"x">> >>}}

\* rows whose columns the generator shifted or filled with the wrong value
ShiftedRows ==
    \* Pattern A: free text in item_type, the real type in section_id
    {RowWith([item_type |-> <<"desk">>, section_id |-> <<t>>, room |-> <<"Lobby">>,
              qty |-> q, unit |-> u, width_mm |-> w]) :
        t \in {"countertop", "tall_cabinet"},
        q \in {<<"EA">>, <<"2">>, << >>},
        u \in {<<"6", "1", "0">>, << >>},
        w \in {<<"3", "0", "5">>, <<"extracted">>}}
    \cup
    \* Pattern C: item_type repeats the room, section_id holds the description
    {RowWith([item_type |-> <<"Lobby">>, section_id |-> d, room |-> <<"Lobby">>,
              qty |-> q, depth_mm |-> m]) :
        d \in {<<"counter", SP, "top">>, <<"desk">>, <<"base", SP, "rubber">>},
        q \in {<<"1", "2", "0", "0">>, <<"5">>, << >>},
        m \in {<<"PL">>, <<"6", "1", "0">>, << >>}}
    \cup
    \* Pattern B: free text in item_type, nothing usable in section_id
    {RowWith([item_type |-> t, description |-> d, room |-> <<"Lobby">>,
              qty |-> <<"1">>, unit |-> <<"EA">>]) :
        t \in {<<"desk">>, <<"base", SP, "rubber">>, <<"towel">>, <<"shelf">>},
        d \in {<< >>, <<"Lobby">>, <<"countertop">>, <<"bar">>, <<"desk", SP, "top">>}}
    \cup
    \* Pattern D and the leaked closed-vocabulary values
    {RowWith([item_type |-> <<"tall_cabinet">>, description |-> d, room |-> rm,
              qty |-> <<"1">>, unit |-> <<"EA">>, height_mm |-> h,
              material_code |-> mc, sheet_ref |-> sr, confidence |-> cf, notes |-> nt]) :
        d \in {<<"desk">>, <<"EA">>},
        rm \in {<<"Lobby">>, <<"EA">>},
        h \in {<<"9", "1", "4">>, <<"unknown">>},
        mc \in {<<"PL">>, <<"low">>},
        sr \in {<<"A">>, <<"1", "2">>},
        cf \in {<< >>, <<"high">>},
        nt \in {<<"High">>, <<"x">>}}

FieldLists ==
    {RowFields(r) : r \in GoodRows \cup ShiftedRows}
    \cup ExcessFieldLists \cup ShortFieldLists \cup CommaFieldLists

DataLines == {Join(f, <<";">>) : f \in FieldLists}

\* the generator's responses: the header and one data line; a fenced
\* response; a response with a wrong header; two data lines
Responses ==
    {HEADER_V14 \o <<NL>> \o l : l \in DataLines}
    \cup {<<FENCE, "toon", NL>> \o HEADER_V14 \o <<NL>> \o l \o <<NL, FENCE>> :
            l \in {Join(RowFields(r), <<";">>) : r \in GoodRows}}
    \cup {<<"#", "TOON", SP, "v=1">> \o <<NL>> \o l :
            l \in {Join(RowFields(r), <<";">>) : r \in GoodRows}}
    \cup {HEADER_V14 \o <<NL>> \o Join(RowFields(r1), <<";">>) \o <<NL>> \o l2 :
            r1 \in GoodRows, l2 \in {Join(f, <<";">>) : f \in ShortFieldLists}}

InitRepair ==
    /\ pc = "sanitize"
    /\ response \in Responses
    /\ toon = response
    /\ schema = MW_ITEM_SCHEMA_V14
    /\ rows = << >>
    /\ valid = "unset"
    /\ decoded = NoResult
    /\ warnings = << >>
    /\ GroupIdle

\* handler line 910
Sanitize ==
    /\ pc = "sanitize"
    /\ toon' = sanitizeToon(toon)
    /\ pc' = "validate"
    /\ UNCHANGED <<groupVars, schema, rows, valid, decoded, response, warnings>>

\* handler lines 913-922
CheckResponse ==
    /\ pc = "validate"
    /\ toon' = unfence(toon)
    /\ valid' = isValidToon(toon', HEADER_V14)
    /\ pc' = IF valid' THEN "decode" ELSE "rejected"
    /\ UNCHANGED <<groupVars, schema, rows, decoded, response, warnings>>

\* handler line 925
DecodeResponse ==
    /\ pc = "decode"
    /\ decoded' = decodeToon(toon)
    /\ pc' = IF decoded'.ok THEN "postprocess" ELSE "failed"
    /\ UNCHANGED <<groupVars, schema, rows, toon, valid, response, warnings>>

\* handler line 926
Postprocess ==
    /\ pc = "postprocess"
    /\ \E result \in {postprocess(decoded.rows)} :
          /\ rows' = result.rows
          /\ warnings' = result.warnings
    /\ pc' = "cleanup"
    /\ UNCHANGED <<groupVars, schema, toon, valid, decoded, response>>

\* handler line 929
Cleanup ==
    /\ pc = "cleanup"
    /\ rows' = cleanupRows(rows)
    /\ pc' = "done"
    /\ UNCHANGED <<groupVars, schema, toon, valid, decoded, response, warnings>>

NextRepair == Sanitize \/ CheckResponse \/ DecodeResponse \/ Postprocess \/ Cleanup

SpecRepair == InitRepair /\ [][NextRepair]_vars

\* the trimmed non-blank lines after the first line of a response: the lines
\* decodeToon turns into rows, in order
DataLinesOf(text) ==
    LET lines == Split(Remove(text, CR), NL)
    IN  SelectSeq([i \in 1..(Len(lines) - 1) |-> Trim(lines[i + 1])],
                  LAMBDA l : l # << >>)

\* s occurs in t as a contiguous run of symbols
IsInfix(s, t) == \E i \in 1..(Len(t) - Len(s) + 1) : SubSeq(t, i, i + Len(s) - 1) = s

\* C3: every row handed to the postprocessor was decoded from a data line
\* with exactly len(schema) separator-delimited fields, or a warning records
\* why a line with more or fewer fields was padded or truncated.
C3_ColumnCount ==
    pc = "cleanup" =>
        \A k \in 1..Len(decoded.rows) :
            \/ Len(splitLine(DataLinesOf(toon)[k], DEFAULT_SEP)) = Len(schema)
            \/ warnings # << >>

\* C4: a data line with k >= 1 more ';'-separated fields than the schema
\* declares is repaired to the declared column count, and the row decoded
\* from it has in its description column k + 1 neighbouring fields of the
\* line joined with " - ".
C4_ExcessIntoDescription ==
    (pc = "postprocess" /\ StartsWith(response, HEADER_V14)) =>
        \A k \in 1..Len(decoded.rows) :
            LET orig == Split(DataLinesOf(response)[k], ";")
                excess == Len(orig) - Len(schema)
            IN  excess >= 1 =>
                    /\ Len(Split(DataLinesOf(toon)[k], ";")) = Len(schema)
                    /\ \E i \in 1..(Len(orig) - excess) :
                            decoded.rows[k].description
                                = Join(SubSeq(orig, i, i + excess), <<SP, "-", SP>>)

\* sanitizeToon leaves its own output unchanged
C5_SanitizeIdempotent == pc # "sanitize" => sanitizeToon(toon) = toon

\* cleanupRows leaves its own output unchanged
C5_CleanupIdempotent == pc = "done" => cleanupRows(rows) = rows

\* C5: repair is idempotent: sanitizeToon applied to its own output and
\* cleanupRows applied to its own output change nothing.
C5_RepairIdempotent == C5_SanitizeIdempotent /\ C5_CleanupIdempotent

\* the columns C6 names: quantity, unit, dimensions, material, description
DataColumns ==
    {"qty", "unit", "length_mm", "width_mm", "height_mm", "depth_mm",
     "material", "material_code", "description"}

\* C6: after sanitizeToon and cleanupRows every non-empty quantity, unit,
\* dimension, material and description of the repaired row of a one-line
\* response occurs in the text of the original line.
C6_NoInventedData ==
    (pc = "done" /\ StartsWith(response, HEADER_V14)
        /\ Len(decoded.rows) = 1 /\ Len(rows) = 1) =>
        \A c \in DataColumns :
            \/ rows[1][c] = << >>
            \/ IsInfix(rows[1][c], DataLinesOf(response)[1])

\* ─── Page parsing and grouping (src/scope-extractor-v14.ts) ─────────────

\* the page markers of the model's documents, each one symbol
PageMarkers == {"--- PAGE BREAK ---", "--- PAGE 1 ---"}

\* the numbered markers the texts hold
NumberedMarkers == <<"--- PAGE 1 ---", "--- PAGE 2 ---", "--- PAGE 3 ---", "--- PAGE 4 ---">>

\* what /---\s*PAGE\s*(?:BREAK|(\d+))\s*---/i matches
SplitMarkers == PageMarkers \cup {NumberedMarkers[k] : k \in 1..Len(NumberedMarkers)}

\* the capture group of the marker: the page number, nothing for a break
MarkerCapture(m) ==
    IF \E k \in 1..Len(NumberedMarkers) : NumberedMarkers[k] = m
    THEN NumStr(CHOOSE k \in 1..Len(NumberedMarkers) : NumberedMarkers[k] = m)
    ELSE << >>

\* text.split(/---\s*PAGE\s*(?:BREAK|(\d+))\s*---/i): the texts between the
\* markers at the odd places, the captures at the even places
SplitPages(text) ==
    LET at == {i \in 1..Len(text) : text[i] \in SplitMarkers}
        n == Cardinality(at)
        pos == Ascending(at)
        edge(k) == IF k = 0 THEN 0 ELSE IF k = n + 1 THEN Len(text) + 1 ELSE pos[k]
    IN  [j \in 1..(2 * n + 1) |->
            IF j % 2 = 1
            THEN SubSeq(text, edge((j - 1) \div 2) + 1, edge((j + 1) \div 2) - 1)
            ELSE MarkerCapture(text[pos[j \div 2]])]

\* the loop of parsePages from part i on, pageNum as it stands
RECURSIVE parseLoop(_, _, _)
parseLoop(parts, i, pageNum) ==
    IF i > Len(parts) THEN << >>
    ELSE LET part == Trim(parts[i]) IN
         IF part = << >> THEN parseLoop(parts, i + 1, pageNum)
         ELSE IF IsDigits(part) THEN parseLoop(parts, i + 1, DigitsVal(part))
         ELSE IF StrLen(part) > 5
              THEN <<[pageNum |-> pageNum + 1, text |-> part]>>
                   \o parseLoop(parts, i + 1, pageNum + 1)
         ELSE parseLoop(parts, i + 1, pageNum)

parsePages(text) ==
    LET parts == SplitPages(text)
    IN  IF Len(parts) <= 1 THEN <<[pageNum |-> 1, text |-> Trim(text)]>>
        ELSE parseLoop(parts, 1, 0)

\* a run of 600 characters of dimension figures: it begins and ends with a
\* figure, holds no letter and no line break.  The other symbols of a page
\* of the model add up to fewer than 600 characters.
LONG == "<600 figures>"

\* page.text.substring(0, 600) + "\n" + page.text.substring(max(0, length - 600))
titleZone(text) ==
    LET at == {i \in 1..Len(text) : text[i] = LONG}
    IN  IF at = {} THEN text \o <<NL>> \o text
        ELSE SubSeq(text, 1, CHOOSE i \in at : \A j \in at : i <= j) \o <<NL>>
             \o SubSeq(text, CHOOSE i \in at : \A j \in at : i >= j, Len(text))

\* one row of titlePatterns.  words[m] is the set of lower-case words the
\* m-th word of the pattern matches; between two words the pattern allows
\* blanks, and the symbols of gap (only one of them when single is set)
Pat(words, name, score) ==
    [words |-> words, gap |-> {}, single |-> FALSE, name |-> name, score |-> score]

MenWords == {"men", "mens", "men's", "women", "womens", "women's"}
WomenWords == {"women", "womens", "women's", "woman", "womans", "woman's"}
VanityWords == {"vanity", "vanities"}
LockerWords == {"locker", "lockers"}
RestroomWords == VanityWords \cup LockerWords \cup {"restroom", "restrooms"}
EquipWords == {"equip", "equipment"}
CabWords == {"cab", "cabinet", "cabinets"}

titlePatterns ==
    <<Pat(<<{"kid", "kids"}, {"club"}>>, "Kids Club", 10),
      [Pat(<<{"art", "arts"}, {"craft", "crafts"}>>, "Arts & Crafts", 10)
          EXCEPT !.gap = {"&", "and", "n", "'n", "n'", "'n'"}, !.single = TRUE],
      Pat(<<{"service"}, {"manager", "managers"}>>, "Service Manager", 10),
      Pat(<<{"reception"}, {"desk", "desks"}>>, "Reception Desk", 10),
      Pat(<<{"team"}, {"memb", "member", "members"}>>, "Team Members", 10),
      Pat(<<{"team"}, {"room", "rooms"}>>, "Team Room", 10),
      Pat(<<MenWords, RestroomWords>>, "Mens Vanity", 10),
      Pat(<<WomenWords, RestroomWords>>, "Womens Vanity", 10),
      Pat(<<VanityWords, {"detail", "details"}>>, "Vanity Details", 10),
      Pat(<<{"retail"}, {"display", "displays", "trellis", "area", "ceiling"}>>,
          "Retail Trellis", 10),
      Pat(<<{"break"}, {"room", "rooms"}>>, "Break Room", 10),
      Pat(<<{"nurse"}, {"station"}>>, "Nurse Station", 10),
      [Pat(<<{"check"}, {"in", "out"}>>, "Check-In-Out", 10) EXCEPT !.gap = {"-"}],
      Pat(<<{"conference"}, {"room", "rooms"}>>, "Conference Room", 10),
      Pat(<<EquipWords, CabWords>>, "Equipment Cabinet", 10),
      Pat(<<{"stereo"}, EquipWords \cup CabWords>>, "Equipment Cabinet", 10),
      Pat(<<{"janitor", "janitors", "janitor's"}>>, "Janitor", 10),
      Pat(<<{"laundry"}>>, "Laundry", 10),
      Pat(<<{"first"}, {"floor"}, {"plan", "plans"}>>, "First Floor", 10),
      Pat(<<{"floor"}, {"plan", "plans"}>>, "First Floor", 8),
      Pat(<<LockerWords>>, "Team Members", 5),
      Pat(<<VanityWords>>, "Vanity Details", 5),
      Pat(<<{"trellis"}>>, "Retail Trellis", 5),
      Pat(<<{"retail"}>>, "Retail Trellis", 5),
      Pat(<<{"lobby"}>>, "Lobby", 5),
      Pat(<<{"kitchen"}>>, "Kitchen", 5),
      Pat(<<{"mirror", "mirrors"}>>, "Vanity Details", 5),
      Pat(<<{"unisex"}>>, "Unisex", 5),
      Pat(<<{"pool"}>>, "Pool Area", 5),
      Pat(<<{"fitness"}>>, "Fitness Area", 5),
      Pat(<<{"stereo"}>>, "Service Manager", 5),
      Pat(<<{"av"}, EquipWords>>, "Service Manager", 5)>>

\* the symbols strictly between positions i and j are what the pattern allows
GapOk(s, p, i, j) ==
    LET inGap == {k \in (i + 1)..(j - 1) : s[k] \notin Whitespace}
    IN  /\ \A k \in inGap : Lower(s[k]) \in p.gap
        /\ p.single => Cardinality(inGap) <= 1

\* the words of the pattern from the m-th on match from position i on
RECURSIVE MatchWords(_, _, _, _)
MatchWords(s, p, m, i) ==
    /\ Lower(s[i]) \in p.words[m]
    /\ \/ m = Len(p.words)
       \/ \E j \in (i + 1)..Len(s) : GapOk(s, p, i, j) /\ MatchWords(s, p, m + 1, j)

\* pattern.test(s)
Test(p, s) == \E i \in 1..Len(s) : MatchWords(s, p, 1, i)

\* the sheet codes [AT]\d+[.\-]\d+ of the model's pages, each one symbol
SheetCodes == {"a7.15", "t3.12"}

\* sheetRefRe /([AT]\d+[.\-]\d+)\s*[-:]\s*(.+)/gi run over the text from
\* position i on: group 2 of every match, trimmed.  (.+) is the rest of the
\* line from the first symbol that is not blank.
RECURSIVE sheetRefsFrom(_, _)
sheetRefsFrom(s, i) ==
    IF i > Len(s) THEN << >>
    ELSE LET dash == SkipBlanks(s, i + 1)
             from == SkipBlanks(s, dash + 1)
             to == LineEnd(s, from)
         IN  IF /\ Lower(s[i]) \in SheetCodes
                /\ dash <= Len(s) /\ s[dash] \in {"-", ":"}
                /\ from <= Len(s)
             THEN <<Trim(SubSeq(s, from, to - 1))>> \o sheetRefsFrom(s, to)
             ELSE sheetRefsFrom(s, i + 1)

\* the words that end a detail heading: PLAN|DETAIL|SECTION|ELEVATION
HeadingEnds ==
    {"plan", "plans", "detail", "details", "section", "sections",
     "elevation", "elevations"}

\* [A-Z\s']: a blank, or a word of letters and apostrophes
IsHeadingSymbol(w) ==
    /\ w \notin {LONG, "-", ":", "&", "."}
    /\ w \notin SplitMarkers
    /\ Lower(w) \notin SheetCodes
    /\ ~IsDigit(w)

\* detailHeadingRe /ENLARGED\s+([A-Z][A-Z\s']+?)\s*(?:PLAN|...)/gi run over
\* the text from position i on: group 1 of every match, trimmed
RECURSIVE detailHeadingsFrom(_, _)
detailHeadingsFrom(s, i) ==
    IF i > Len(s) THEN << >>
    ELSE LET from == SkipBlanks(s, i + 1)
             ends == {j \in (from + 1)..Len(s) :
                        /\ Lower(s[j]) \in HeadingEnds
                        /\ \A k \in from..(j - 1) : IsHeadingSymbol(s[k])}
             to == CHOOSE j \in ends : \A j2 \in ends : j <= j2
         IN  IF /\ Lower(s[i]) = "enlarged"
                /\ from > i + 1
                /\ ends # {}
             THEN <<Trim(SubSeq(s, from, to - 1))>> \o detailHeadingsFrom(s, to + 1)
             ELSE detailHeadingsFrom(s, i + 1)

SheetRefBonus == 5

\* the comparison that lets a later pattern of the same score take over
BetterOrEqual(score, best) == score >= best

\* score > bestScore, refScore > bestScore
Better(score, best) == score > best

\* the single-room loop over titlePatterns from row k on; best is
\* [room, score] as it stands
RECURSIVE bestMatch(_, _, _, _)
bestMatch(zone, refs, k, best) ==
    IF k > Len(titlePatterns) THEN best
    ELSE LET p == titlePatterns[k]
             refScore == p.score + SheetRefBonus
             b1 == IF Test(p, zone) /\ Better(p.score, best.score)
                   THEN [room |-> p.name, score |-> p.score] ELSE best
             b2 == IF (\E r \in 1..Len(refs) : Test(p, refs[r]))
                      /\ Better(refScore, b1.score)
                   THEN [room |-> p.name, score |-> refScore] ELSE b1
         IN  bestMatch(zone, refs, k + 1, b2)

\* the full-text loop over the patterns of score 10 and more
RECURSIVE fullTextMatch(_, _, _)
fullTextMatch(text, k, best) ==
    IF k > Len(titlePatterns) THEN best
    ELSE LET p == titlePatterns[k]
         IN  fullTextMatch(text, k + 1,
                IF p.score >= 10 /\ Test(p, text) /\ Better(p.score, best.score)
                THEN [room |-> p.name, score |-> p.score] ELSE best)

\* bestRoom of the single-room assignment of a page
singleRoom(page, refs) ==
    LET best == bestMatch(titleZone(page.text), refs, 1,
                          [room |-> "Unclassified", score |-> 0])
    IN  IF best.score = 0 THEN fullTextMatch(page.text, 1, best).room
        ELSE best.room

\* the name of the first pattern that matches s, as a list of none or one
firstMatch(s) ==
    LET hits == {k \in 1..Len(titlePatterns) : Test(titlePatterns[k], s)}
    IN  IF hits = {} THEN << >>
        ELSE <<titlePatterns[CHOOSE k \in hits : \A k2 \in hits : k <= k2].name>>

\* the members of a Set in insertion order
RECURSIVE InsertionOrder(_)
InsertionOrder(names) ==
    IF names = << >> THEN << >>
    ELSE LET front == InsertionOrder(SubSeq(names, 1, Len(names) - 1))
             last == names[Len(names)]
         IN  IF \E i \in 1..Len(front) : front[i] = last THEN front
             ELSE Append(front, last)

\* matchedRooms of the multi-detail branch
matchedRooms(headings, refs) ==
    InsertionOrder(Concat([h \in 1..Len(headings) |-> firstMatch(headings[h])])
                   \o Concat([r \in 1..Len(refs) |-> firstMatch(refs[r])]))

\* roomMap after pushing pageNum to a room; guarded pushes only a number
\* the room does not list yet
addPage(map, room, pageNum, guarded) ==
    LET m == IF \E i \in 1..Len(map) : map[i].name = room THEN map
             ELSE Append(map, [name |-> room, pageNums |-> << >>])
        at == CHOOSE i \in 1..Len(m) : m[i].name = room
    IN  IF guarded /\ \E j \in 1..Len(m[at].pageNums) : m[at].pageNums[j] = pageNum
        THEN m
        ELSE [m EXCEPT ![at].pageNums = Append(@, pageNum)]

RECURSIVE addPageToAll(_, _, _)
addPageToAll(map, names, pageNum) ==
    IF names = << >> THEN map
    ELSE addPageToAll(addPage(map, Head(names), pageNum, TRUE), Tail(names), pageNum)

\* one turn of the loop over the pages: roomMap and bestRoom after it
\* (bestRoom is not declared on the multi-detail path: "")
groupPage(map, page) ==
    LET refs == sheetRefsFrom(page.text, 1)
        headings == detailHeadingsFrom(page.text, 1)
        matched == matchedRooms(headings, refs)
        best == singleRoom(page, refs)
    IN  IF Len(headings) >= 3 /\ matched # << >>
        THEN [roomMap |-> addPageToAll(map, matched, page.pageNum), bestRoom |-> ""]
        ELSE [roomMap |-> addPage(map, best, page.pageNum, FALSE), bestRoom |-> best]

\* String(idx).padStart(3, "0")
PadStart3(digits) ==
    [i \in 1..(3 - Len(digits)) |-> "0"] \o digits

\* ─── Grouping a pasted document: parsePages, then groupPagesByRoom ─────

MaxPages == 2

PageTexts ==
    {<<"General", SP, "Notes">>,
     <<"Janitor">>,
     <<"Laundry", SP, "Janitor">>,
     <<"Lobby", NL, "A7.15", SP, "-", SP, "Laundry">>,
     <<"Janitor", SP, LONG, NL, "A7.15", SP, "-", SP, "Lobby", NL, LONG, SP, "Notes">>,
     <<"Notes", SP, LONG, NL, "T3.12", ":", "Laundry", NL, LONG, SP, "Janitor">>,
     <<"Notes", SP, LONG, SP, "Laundry", SP, LONG, SP, "Notes">>,
     <<"Notes", SP, LONG, SP, "Lobby", SP, LONG, SP, "Notes">>,
     <<"ENLARGED", SP, "JANITOR", SP, "PLAN", NL,
       "ENLARGED", SP, "LAUNDRY", SP, "DETAIL", NL,
       "ENLARGED", SP, "MEN'S", SP, "LOCKER", SP, "SECTION">>,
     <<"Lobby", NL, "ENLARGED", SP, "NOTES", SP, "PLAN", NL,
       "ENLARGED", SP, "NOTES", SP, "DETAIL", NL,
       "ENLARGED", SP, "NOTES", SP, "SECTION">>,
     <<"ENLARGED", SP, "JANITOR", SP, "PLAN", NL,
       "ENLARGED", SP, "JANITOR", SP, "PLAN", NL,
       "ENLARGED", SP, "JANITOR", SP, "PLAN", NL,
       "A7.15", SP, "-", SP, "Laundry">>,
     <<"Lobby">>,
     <<"1", "2">>}

\* a document: page texts, each behind a marker, or one text with no marker
Documents ==
    PageTexts
    \cup UNION {{Concat([i \in 1..n |-> <<ms[i], NL>> \o ts[i] \o <<NL>>]) :
                    ms \in [1..n -> PageMarkers], ts \in [1..n -> PageTexts]} :
                n \in 1..MaxPages}

CodecIdle ==
    /\ schema = << >>
    /\ rows = << >>
    /\ toon = << >>
    /\ valid = "unset"
    /\ decoded = NoResult
    /\ response = << >>
    /\ warnings = << >>

InitGroup ==
    /\ pc = "parse"
    /\ doc \in Documents
    /\ pages = << >>
    /\ pageIdx = 0
    /\ roomMap = << >>
    /\ bestRoom = ""
    /\ roomInfos = << >>
    /\ parsed = << >>
    /\ hints = << >>
    /\ ServiceIdle
    /\ CodecIdle

\* handler line 850
ParsePages ==
    /\ pc = "parse"
    /\ pages' = parsePages(doc)
    /\ pc' = "group"
    /\ UNCHANGED <<codecVars, hintVars, serviceVars, doc, pageIdx, roomMap, bestRoom, roomInfos>>

\* groupPagesByRoom: one turn of the loop over the pages
GroupPage ==
    /\ pc = "group"
    /\ pageIdx < Len(pages)
    /\ LET turn == groupPage(roomMap, pages[pageIdx + 1])
       IN  roomMap' = turn.roomMap /\ bestRoom' = turn.bestRoom
    /\ pageIdx' = pageIdx + 1
    /\ UNCHANGED <<pc, codecVars, hintVars, serviceVars, doc, pages, roomInfos>>

\* groupPagesByRoom: the room list built from roomMap
FinishGroup ==
    /\ pc = "group"
    /\ pageIdx = Len(pages)
    /\ roomInfos' = [i \in 1..Len(roomMap) |->
                        [roomName |-> roomMap[i].name,
                         roomId |-> <<"ROOM-">> \o PadStart3(NumStr(i)),
                         pageNums |-> roomMap[i].pageNums]]
    /\ pc' = "grouped"
    /\ UNCHANGED <<codecVars, hintVars, serviceVars, doc, pages, pageIdx, roomMap, bestRoom>>

NextGroup == ParsePages \/ GroupPage \/ FinishGroup

SpecGroup == InitGroup /\ [][NextGroup]_vars

\* how often a page number is listed in roomMap, over all rooms
Listed(map, n) ==
    Cardinality({<<i, j>> \in (1..Len(map)) \X (1..MaxPages) :
                    j <= Len(map[i].pageNums) /\ map[i].pageNums[j] = n})

\* how often a room of roomMap lists a page number (0 when there is no such room)
ListedIn(map, room, n) ==
    Cardinality({<<i, j>> \in (1..Len(map)) \X (1..MaxPages) :
                    /\ map[i].name = room
                    /\ j <= Len(map[i].pageNums) /\ map[i].pageNums[j] = n})

\* a page the grouper treats as a multi-detail page
IsMultiDetail(page) == Len(detailHeadingsFrom(page.text, 1)) >= 3

\* no pattern of the table matches anywhere in the page
MatchesNoPattern(page) ==
    \A k \in 1..Len(titlePatterns) : ~Test(titlePatterns[k], page.text)

DistinctPageNums ==
    \A i, j \in 1..Len(pages) : pages[i].pageNum = pages[j].pageNum => i = j

\* C7: when grouping is done every page number is listed in some room, the
\* number of a page that is not a multi-detail page is listed exactly once
\* over all rooms, and a page that matches no pattern is in "Unclassified".
C7_TotalAndDisjoint ==
    pc = "grouped" =>
        \A i \in 1..Len(pages) :
            /\ Listed(roomMap, pages[i].pageNum) >= 1
            /\ ~IsMultiDetail(pages[i]) => Listed(roomMap, pages[i].pageNum) = 1
            /\ MatchesNoPattern(pages[i])
                => ListedIn(roomMap, "Unclassified", pages[i].pageNum) >= 1

\* the same for documents whose pages got pairwise distinct numbers
C7_PartitionOfDistinctPages ==
    (pc = "grouped" /\ DistinctPageNums) =>
        \A i \in 1..Len(pages) :
            /\ Listed(roomMap, pages[i].pageNum) >= 1
            /\ ~IsMultiDetail(pages[i]) => Listed(roomMap, pages[i].pageNum) = 1
            /\ MatchesNoPattern(pages[i])
                => ListedIn(roomMap, "Unclassified", pages[i].pageNum) = 1

\* the rows of the table that match the page in its title zone or in one
\* of its sheet references
IsRefMatch(page, k) ==
    LET refs == sheetRefsFrom(page.text, 1)
    IN  \E r \in 1..Len(refs) : Test(titlePatterns[k], refs[r])

Matching(page) ==
    {k \in 1..Len(titlePatterns) :
        Test(titlePatterns[k], titleZone(page.text)) \/ IsRefMatch(page, k)}

\* the effective score of a matching row: the table score, plus the bonus
\* when a sheet reference matches
EffectiveScore(page, k) ==
    IF IsRefMatch(page, k) THEN titlePatterns[k].score + SheetRefBonus
    ELSE titlePatterns[k].score

\* the first registered row among those of the highest effective score
Winner(page) ==
    CHOOSE k \in Matching(page) :
        \A k2 \in Matching(page) :
            \/ EffectiveScore(page, k) > EffectiveScore(page, k2)
            \/ EffectiveScore(page, k) = EffectiveScore(page, k2) /\ k <= k2

\* the page the loop handled last went through the single-room assignment
LastPageSingle == pageIdx >= 1 /\ bestRoom # ""

\* C8: for a page handled by single-room assignment that matches a pattern
\* in its title zone or a sheet reference, the chosen room is that of the
\* matching pattern with the highest effective score, the first registered
\* one among equals; the page number is pushed to that room.
C8_ScoredSelection ==
    (LastPageSingle /\ Matching(pages[pageIdx]) # {}) =>
        /\ bestRoom = titlePatterns[Winner(pages[pageIdx])].name
        /\ ListedIn(roomMap, bestRoom, pages[pageIdx].pageNum) >= 1

\* a single-room page on which a title match and a sheet-reference match of
\* another room tie on the highest effective score, the first registered won
C8_Witness ==
    /\ LastPageSingle
    /\ \E k1, k2 \in Matching(pages[pageIdx]) :
            /\ k1 < k2
            /\ k1 = Winner(pages[pageIdx])
            /\ ~IsRefMatch(pages[pageIdx], k1) /\ IsRefMatch(pages[pageIdx], k2)
            /\ EffectiveScore(pages[pageIdx], k1) = EffectiveScore(pages[pageIdx], k2)
            /\ titlePatterns[k1].name # titlePatterns[k2].name
            /\ bestRoom = titlePatterns[k1].name

\* the distinct detail headings of a page
DistinctHeadings(page) ==
    {detailHeadingsFrom(page.text, 1)[h] :
        h \in 1..Len(detailHeadingsFrom(page.text, 1))}

\* C9: after the loop has handled a page with at least 3 distinct detail
\* headings (page numbers being distinct), every room whose pattern
\* matches one of the headings lists that page number exactly once.
C9_EveryMatchingRoom ==
    (pageIdx >= 1 /\ DistinctPageNums
        /\ Cardinality(DistinctHeadings(pages[pageIdx])) >= 3) =>
        \A k \in 1..Len(titlePatterns) :
            (\E h \in DistinctHeadings(pages[pageIdx]) : Test(titlePatterns[k], h))
                => ListedIn(roomMap, titlePatterns[k].name, pages[pageIdx].pageNum) = 1

\* ─── Deduplication: deduplicateRows on decoded rows ────────────────────

MaxGroup == 3

\* rows that differ in room (also only in its case) and in quantity
DedupeRows ==
    {RowWith([item_id |-> <<"A">>, item_type |-> <<"countertop">>, room |-> r,
              qty |-> q, unit |-> <<"EA">>]) :
        r \in {<<"Lobby">>, <<"lobby">>, <<"Janitor">>},
        q \in {<<"1">>, <<"2">>, <<"0">>, << >>}}

InitDedupe ==
    /\ pc = "dedupe"
    /\ rows \in SeqsUpTo(DedupeRows, MaxGroup)
    /\ decoded = [ok |-> TRUE, error |-> "", rows |-> rows]
    /\ schema = MW_ITEM_SCHEMA_V14
    /\ toon = << >>
    /\ valid = "unset"
    /\ response = << >>
    /\ warnings = << >>
    /\ GroupIdle

\* postprocess step 2
Deduplicate ==
    /\ pc = "dedupe"
    /\ rows' = deduplicateRows(rows).rows
    /\ warnings' = warnings \o deduplicateRows(rows).warnings
    /\ pc' = "deduped"
    /\ UNCHANGED <<groupVars, schema, toon, valid, decoded, response>>

NextDedupe == Deduplicate

SpecDedupe == InitDedupe /\ [][NextDedupe]_vars

\* the quantities written in a list of rows, added up
RECURSIVE QtySum(_)
QtySum(rs) == IF rs = << >> THEN 0 ELSE Number(Head(rs).qty) + QtySum(Tail(rs))

\* every quantity of the list is a numeral
QtysWritten(rs) == \A i \in 1..Len(rs) : IsDigits(Trim(rs[i].qty))

\* the rows of a list that have the key of r, in order
SameKey(rs, r) == SelectSeq(rs, LAMBDA x : makeDedupeKey(x) = makeDedupeKey(r))

\* C10: of rows that all have a quantity written, every group of more than
\* one row with the same key is replaced by one row whose quantity is the
\* sum of the group's quantities and whose notes end with the merge-count
\* note, rows with different keys are not merged, and the quantities add up
\* to the same sum before and after.
C10_Deduplication ==
    (pc = "deduped" /\ QtysWritten(decoded.rows)) =>
        /\ \A i \in 1..Len(decoded.rows) :
                LET group == SameKey(decoded.rows, decoded.rows[i])
                    out == SameKey(rows, decoded.rows[i])
                IN  /\ Len(out) = 1
                    /\ Len(group) > 1 =>
                        /\ out[1].qty = NumStr(QtySum(group))
                        /\ out[1].notes = group[1].notes \o MergeNote(Len(group))
                    /\ Len(group) = 1 => out[1] = group[1]
        /\ Len(rows) = Cardinality({makeDedupeKey(decoded.rows[i]) :
                                        i \in 1..Len(decoded.rows)})
        /\ QtySum(rows) = QtySum(decoded.rows)

\* the same where every quantity written is a positive number
C10_PositiveQuantities ==
    (pc = "deduped" /\ QtysWritten(decoded.rows)
        /\ \A i \in 1..Len(decoded.rows) : Number(decoded.rows[i].qty) > 0) =>
        /\ \A i \in 1..Len(decoded.rows) :
                LET group == SameKey(decoded.rows, decoded.rows[i])
                    out == SameKey(rows, decoded.rows[i])
                IN  /\ Len(out) = 1
                    /\ Len(group) > 1 =>
                        /\ out[1].qty = NumStr(QtySum(group))
                        /\ out[1].notes = group[1].notes \o MergeNote(Len(group))
        /\ QtySum(rows) = QtySum(decoded.rows)

\* ─── Postprocessing of decoded rows (handler line 926) ─────────────────

MaxPostRows == 2

\* width, height and depth as the generator writes them: a known default, a
\* size within 5 mm of one, no dimension at all, and a cabinet with no height
PostDims ==
    {[w |-> <<"6", "1", "0">>, h |-> <<"8", "7", "6">>, d |-> <<"6", "1", "0">>],
     [w |-> <<"6", "1", "2">>, h |-> <<"8", "7", "4">>, d |-> <<"6", "0", "8">>],
     [w |-> << >>, h |-> << >>, d |-> << >>],
     [w |-> <<"6", "1", "0">>, h |-> << >>, d |-> <<"6", "1", "0">>]}

\* item type and length: a countertop run and a cabinet
PostKinds ==
    {[t |-> <<"countertop">>, l |-> <<"1", "0", "0", "0">>],
     [t |-> <<"base_cabinet">>, l |-> << >>]}

PostRows ==
    {RowWith([item_id |-> <<"A">>, item_type |-> k.t, description |-> <<"desk">>,
              room |-> <<"Lobby">>, qty |-> <<"1">>, unit |-> <<"EA">>,
              length_mm |-> k.l, width_mm |-> dim.w, height_mm |-> dim.h,
              depth_mm |-> dim.d, dim_source |-> src,
              material_code |-> <<"PL-01">>, sheet_ref |-> <<"A7.15">>,
              confidence |-> conf]) :
        k \in PostKinds, dim \in PostDims,
        src \in {<< >>, <<"drawing">>}, conf \in {<< >>, <<"high">>}}

InitPost ==
    /\ pc = "decoded"
    /\ decoded \in {[ok |-> TRUE, error |-> "", rows |-> rs] :
                        rs \in SeqsUpTo(PostRows, MaxPostRows) \ {<< >>}}
    /\ rows = << >>
    /\ schema = MW_ITEM_SCHEMA_V14
    /\ toon = << >>
    /\ valid = "unset"
    /\ response = << >>
    /\ warnings = << >>
    /\ GroupIdle

\* handler line 926: postprocess(decoded.rows)
PostprocessRows ==
    /\ pc = "decoded"
    /\ \E result \in {postprocess(decoded.rows)} :
           /\ rows' = result.rows
           /\ warnings' = result.warnings
    /\ pc' = "postprocessed"
    /\ UNCHANGED <<groupVars, schema, toon, valid, decoded, response>>

\* postprocess applied to the rows it returned
PostprocessAgain ==
    /\ pc = "postprocessed"
    /\ decoded' = [decoded EXCEPT !.rows = rows]
    /\ \E result \in {postprocess(rows)} :
           /\ rows' = result.rows
           /\ warnings' = result.warnings
    /\ pc' = "postprocessed twice"
    /\ UNCHANGED <<groupVars, schema, toon, valid, response>>

NextPost == PostprocessRows \/ PostprocessAgain

SpecPost == InitPost /\ [][NextPost]_vars

\* width, height and depth of the row are those of a table entry
IsKnownDefault(row) ==
    \E i \in 1..Len(KNOWN_DEFAULTS_MM) :
        /\ Number(row.width_mm) = KNOWN_DEFAULTS_MM[i].w
        /\ Number(row.height_mm) = KNOWN_DEFAULTS_MM[i].h
        /\ Number(row.depth_mm) = KNOWN_DEFAULTS_MM[i].d

AllDimsEmpty(row) ==
    row.width_mm = << >> /\ row.height_mm = << >> /\ row.depth_mm = << >>

IsFlagged(row) ==
    row.dim_source = <<"default_FLAGGED">> /\ row.confidence = <<"low">>

\* C11: after postprocess, every row whose width, height and depth are those
\* of a known default has dim_source default_FLAGGED and confidence low,
\* whatever the generator wrote in the two fields, and every input row with
\* these dimensions is represented by such a row; a row whose three
\* dimensions are empty keeps the dim_source and the confidence the
\* generator wrote and gets no default-dimension note.
C11_DefaultFlagging ==
    pc = "postprocessed" =>
        /\ \A k \in 1..Len(rows) : IsKnownDefault(rows[k]) => IsFlagged(rows[k])
        /\ \A i \in 1..Len(decoded.rows) :
                IsKnownDefault(decoded.rows[i]) =>
                    /\ Len(SameKey(rows, decoded.rows[i])) = 1
                    /\ IsFlagged(SameKey(rows, decoded.rows[i])[1])
        /\ \A k \in 1..Len(rows) :
                AllDimsEmpty(rows[k]) =>
                    LET from == SameKey(decoded.rows, rows[k])[1]
                    IN  /\ rows[k].dim_source = from.dim_source
                        /\ from.confidence # << >> =>
                                rows[k].confidence = from.confidence
                        /\ ~Includes(rows[k].notes, DefaultDimsNote[2])

\* a known default written with provenance and confidence next to a row
\* with no dimension
C11_Witness ==
    /\ pc = "postprocessed"
    /\ Len(rows) = 2
    /\ \E i \in 1..2 :
            /\ IsKnownDefault(decoded.rows[i])
            /\ decoded.rows[i].dim_source = <<"drawing">>
            /\ decoded.rows[i].confidence = <<"high">>
            /\ AllDimsEmpty(decoded.rows[3 - i])
            /\ decoded.rows[3 - i].confidence = <<"high">>

\* ─── Numbers of the preprocessor (src/unnamed/part_005, preprocess.ts) ──
\* A number is a quotient n/d of naturals, Infinity or NaN; archDimToInches
\* may also return null.

Num(n, d) == [k |-> "num", n |-> n, d |-> d]
Infinity == [k |-> "Infinity", n |-> 0, d |-> 1]
NotANumber == [k |-> "NaN", n |-> 0, d |-> 1]
Null == [k |-> "null", n |-> 0, d |-> 1]

\* a / b of two parsed integers
Quotient(a, b) ==
    IF b # 0 THEN Num(a, b) ELSE IF a = 0 THEN NotANumber ELSE Infinity

\* x + y
Plus(x, y) ==
    IF x.k = "NaN" \/ y.k = "NaN" THEN NotANumber
    ELSE IF x.k = "Infinity" \/ y.k = "Infinity" THEN Infinity
    ELSE Num(x.n * y.d + y.n * x.d, x.d * y.d)

\* x === y
Same(x, y) ==
    /\ x.k = y.k
    /\ x.k = "num" => x.n * y.d = y.n * x.d

\* x < y; false when either side is NaN
Less(x, y) ==
    /\ x.k # "NaN" /\ y.k # "NaN"
    /\ x.k # "Infinity"
    /\ y.k = "num" => x.n * y.d < y.n * x.d

\* Math.round of a number that is not negative
Round(x) == IF x.k = "num" THEN Num((2 * x.n + x.d) \div (2 * x.d), 1) ELSE x

\* Math.round(inches * 25.4)
inchesToMm(inches) ==
    IF inches.k = "num" THEN Round(Num(254 * inches.n, 10 * inches.d)) ELSE inches

\* Math.round(inches * 100) / 100
TwoDecimals(inches) ==
    IF inches.k = "num" THEN Num(Round(Num(100 * inches.n, inches.d)).n, 100)
    ELSE inches

\* ─── Dimension parser ──────────────────────────────────────────────────

MaxOf(S) == CHOOSE x \in S : \A y \in S : y <= x
MinOf(S) == CHOOSE x \in S : \A y \in S : x <= y

\* the end of the longest run of digits (\d+) that starts at i, i - 1 if none
DigitsEnd(s, i) ==
    LET js == {j \in i..Len(s) : \A k \in i..j : IsDigit(s[k])}
    IN  IF js = {} THEN i - 1 ELSE MaxOf(js)

\* the end of the longest run of blanks (\s*) that starts at i
SpacesEnd(s, i) ==
    LET js == {j \in i..Len(s) : \A k \in i..j : s[k] \in Whitespace}
    IN  IF js = {} THEN i - 1 ELSE MaxOf(js)

\* s[i] exists and is the character c
CharAt(s, i, c) == i >= 1 /\ i <= Len(s) /\ s[i] = c

\* the end of a match of \s+\d+\/\d+ (plus) or \s*\d+\/\d+ at i, 0 if none
FracEnd(s, i, plus) ==
    LET a == SpacesEnd(s, i)
        b == DigitsEnd(s, a + 1)
        c == DigitsEnd(s, b + 2)
    IN  IF (plus => a >= i) /\ b >= a + 1 /\ CharAt(s, b + 1, "/") /\ c >= b + 2
        THEN c ELSE 0

\* the end of \d+(?:\s+\d+\/\d+)?(?:\s*\d+\/\d+)? matched at i, where s[i] is
\* a digit: each part takes all it can, and no part ever gives anything back
\* because whatever follows in the patterns can match nothing
InchesEnd(s, i) ==
    LET q == DigitsEnd(s, i)
        e1 == IF FracEnd(s, q + 1, TRUE) # 0 THEN FracEnd(s, q + 1, TRUE) ELSE q
    IN  IF FracEnd(s, e1 + 1, FALSE) # 0 THEN FracEnd(s, e1 + 1, FALSE) ELSE e1

\* the feet-inches pattern matched at i:
\* (\d+)'\s*-?\s*(\d+(?:\s+\d+\/\d+)?(?:\s*\d+\/\d+)?)\s*"?
ftInAt(s, i) ==
    LET a == DigitsEnd(s, i)
        b == SpacesEnd(s, a + 2)
        c == IF CharAt(s, b + 1, "-") THEN b + 1 ELSE b
        p == SpacesEnd(s, c + 1) + 1
        e == InchesEnd(s, p)
        f == SpacesEnd(s, e + 1)
    IN  [ok |-> a >= i /\ CharAt(s, a + 1, "'") /\ DigitsEnd(s, p) >= p,
         feet |-> SubSeq(s, i, a),
         inches |-> SubSeq(s, p, e),
         end |-> IF CharAt(s, f + 1, QUOTE) THEN f + 1 ELSE f]

\* the positions at or after from where the feet-inches pattern matches
ftInStarts(s, from) == {i \in from..Len(s) : ftInAt(s, i).ok}

\* parseFloat(s): the decimal numeral s starts with, NaN if there is none
parseFloat(s) ==
    LET t == TrimStart(s)
        a == DigitsEnd(t, 1)
        b == IF CharAt(t, a + 1, ".") THEN DigitsEnd(t, a + 2) ELSE a
        ScaleOf(n) == IF n = 0 THEN 1 ELSE IF n = 1 THEN 10 ELSE IF n = 2 THEN 100 ELSE 1000
    IN  IF a = 0 THEN NotANumber
        ELSE IF b <= a + 1 THEN Num(DigitsVal(SubSeq(t, 1, a)), 1)
        ELSE Num(DigitsVal(SubSeq(t, 1, a) \o SubSeq(t, a + 2, b)), ScaleOf(b - a - 1))

\* x || 0
OrZero(x) == IF x.k = "NaN" THEN Num(0, 1) ELSE x

parseFraction(str) ==
    LET s == Trim(str)
        a == DigitsEnd(s, 1)
        \* /^(\d+)\s+(\d+)\/(\d+)$/
        m == FracEnd(s, a + 1, TRUE)
        b == DigitsEnd(s, SpacesEnd(s, a + 1) + 1)
        \* /^(\d+)\/(\d+)$/
        c == DigitsEnd(s, a + 2)
    IN  IF a >= 1 /\ m # 0 /\ m = Len(s)
        THEN Plus(Num(DigitsVal(SubSeq(s, 1, a)), 1),
                  Quotient(DigitsVal(SubSeq(s, SpacesEnd(s, a + 1) + 1, b)),
                           DigitsVal(SubSeq(s, b + 2, m))))
        ELSE IF a >= 1 /\ CharAt(s, a + 1, "/") /\ c >= a + 2 /\ c = Len(s)
        THEN Quotient(DigitsVal(SubSeq(s, 1, a)), DigitsVal(SubSeq(s, a + 2, c)))
        ELSE OrZero(parseFloat(s))

\* /^(\d+(?:\.\d+)?)\s*"$/ matches raw: the end of its group, 0 if no match
inOnlyEnd(raw) ==
    LET a == DigitsEnd(raw, 1)
        b == IF CharAt(raw, a + 1, ".") /\ DigitsEnd(raw, a + 2) >= a + 2
             THEN DigitsEnd(raw, a + 2) ELSE a
    IN  IF a >= 1 /\ SpacesEnd(raw, b + 1) + 1 = Len(raw) /\ raw[Len(raw)] = QUOTE
        THEN b ELSE 0

\* /^(\d+(?:\s+\d+\/\d+))\s*"$/ matches raw: the end of its group, 0 if no match
inFracEnd(raw) ==
    LET a == DigitsEnd(raw, 1)
        m == FracEnd(raw, a + 1, TRUE)
    IN  IF a >= 1 /\ m # 0 /\ SpacesEnd(raw, m + 1) + 1 = Len(raw)
            /\ raw[Len(raw)] = QUOTE
        THEN m ELSE 0

archDimToInches(raw) ==
    IF ftInStarts(raw, 1) # {}
    THEN LET ftIn == ftInAt(raw, MinOf(ftInStarts(raw, 1)))
         IN  Plus(Num(12 * DigitsVal(ftIn.feet), 1), parseFraction(ftIn.inches))
    ELSE IF inOnlyEnd(raw) # 0 THEN parseFloat(SubSeq(raw, 1, inOnlyEnd(raw)))
    ELSE IF inFracEnd(raw) # 0 THEN parseFraction(SubSeq(raw, 1, inFracEnd(raw)))
    ELSE Null

\* ─── Dimension parsing: archDimToInches and inchesToMm on one string ───

\* the numerals written in the dimension strings
FeetWritten == {<<"0">>, <<"3">>, <<"1", "4">>}
InchesWritten == {<<"2">>, <<"5">>, <<"1", "0">>}
NumeratorsWritten == {<<"1">>, <<"3">>, <<"1", "5">>}
DenominatorsWritten == {<<"2">>, <<"1", "6">>}

\* between the feet mark and the inches: 3'-10" and 3' - 10"
DimSeparators == {<<"-">>, <<SP, "-", SP>>}

FeetInches(f, sep, w) == f \o <<"'">> \o sep \o w \o <<QUOTE>>
FeetInchesFraction(f, sep, w, n, d) ==
    f \o <<"'">> \o sep \o w \o <<SP>> \o n \o <<"/">> \o d \o <<QUOTE>>
FeetFraction(f, sep, n, d) ==
    f \o <<"'">> \o sep \o n \o <<"/">> \o d \o <<QUOTE>>
\* a fraction that lost its denominator
FeetInchesMalformed(f, sep, w, n) ==
    f \o <<"'">> \o sep \o w \o <<SP>> \o n \o <<"/">> \o <<QUOTE>>

DimStrings ==
    {FeetInches(f, sep, w) : f \in FeetWritten, sep \in DimSeparators, w \in InchesWritten}
    \cup UNION {{FeetInchesFraction(f, sep, w, n, d) : n \in NumeratorsWritten,
                    d \in DenominatorsWritten} :
                f \in FeetWritten, sep \in DimSeparators, w \in InchesWritten}
    \cup UNION {{FeetFraction(f, sep, n, d) : d \in DenominatorsWritten} :
                f \in FeetWritten, sep \in DimSeparators, n \in NumeratorsWritten}
    \cup UNION {{FeetInchesMalformed(f, sep, w, n) : n \in NumeratorsWritten} :
                f \in FeetWritten, sep \in DimSeparators, w \in InchesWritten}

InitDim ==
    /\ pc = "dimension"
    /\ doc \in DimStrings
    /\ pages = << >>
    /\ pageIdx = 0
    /\ roomMap = << >>
    /\ bestRoom = ""
    /\ roomInfos = << >>
    /\ parsed = << >>
    /\ hints = << >>
    /\ ServiceIdle
    /\ CodecIdle

\* archDimToInches(raw), then inchesToMm of what it returned
ParseDimension ==
    /\ pc = "dimension"
    /\ parsed' = [inches |-> archDimToInches(doc),
                  mm |-> inchesToMm(archDimToInches(doc))]
    /\ pc' = "parsed"
    /\ UNCHANGED <<codecVars, serviceVars, doc, pages, pageIdx, roomMap, bestRoom, roomInfos, hints>>

NextDim == ParseDimension

SpecDim == InitDim /\ [][NextDim]_vars

\* m is the whole number nearest to 25.4 * x, the upper one of two
IsRoundedMm(m, x) ==
    /\ m.k = "num" /\ m.d = 1
    /\ 20 * x.d * m.n - 10 * x.d <= 2 * 254 * x.n
    /\ 2 * 254 * x.n < 20 * x.d * m.n + 10 * x.d

\* parsed holds the inches x and round(x * 25.4) millimeters
ParsedAs(x) == Same(parsed.inches, x) /\ IsRoundedMm(parsed.mm, x)

\* C12: a feet-inches string with feet F, whole inches W and an optional
\* fraction N/D, in the forms F'-W", F' - W N/D" and F'-N/D", parses to
\* 12*F + W + N/D inches and round(inches * 25.4) millimeters; 3'-10" gives
\* 46 inches and 1168 mm; a fraction without denominator contributes 0.
C12_FeetInches ==
    pc = "parsed" =>
        /\ \A f \in FeetWritten, sep \in DimSeparators, w \in InchesWritten :
            /\ doc = FeetInches(f, sep, w) =>
                    ParsedAs(Num(12 * DigitsVal(f) + DigitsVal(w), 1))
            /\ \A n \in NumeratorsWritten :
                /\ doc = FeetInchesMalformed(f, sep, w, n) =>
                        ParsedAs(Num(12 * DigitsVal(f) + DigitsVal(w), 1))
                /\ \A d \in DenominatorsWritten :
                        doc = FeetInchesFraction(f, sep, w, n, d) =>
                            ParsedAs(Num((12 * DigitsVal(f) + DigitsVal(w)) * DigitsVal(d)
                                            + DigitsVal(n), DigitsVal(d)))
        /\ \A f \in FeetWritten, sep \in DimSeparators,
              n \in NumeratorsWritten, d \in DenominatorsWritten :
                doc = FeetFraction(f, sep, n, d) =>
                    ParsedAs(Num(12 * DigitsVal(f) * DigitsVal(d) + DigitsVal(n),
                                 DigitsVal(d)))
        /\ doc = <<"3", "'", "-", "1", "0", QUOTE>> =>
                Same(parsed.inches, Num(46, 1)) /\ Same(parsed.mm, Num(1168, 1))

\* the same for the forms that have whole inches
C12_WholeInchForms ==
    pc = "parsed" =>
        \A f \in FeetWritten, sep \in DimSeparators, w \in InchesWritten :
            /\ doc = FeetInches(f, sep, w) =>
                    ParsedAs(Num(12 * DigitsVal(f) + DigitsVal(w), 1))
            /\ \A n \in NumeratorsWritten :
                /\ doc = FeetInchesMalformed(f, sep, w, n) =>
                        ParsedAs(Num(12 * DigitsVal(f) + DigitsVal(w), 1))
                /\ \A d \in DenominatorsWritten :
                        doc = FeetInchesFraction(f, sep, w, n, d) =>
                            ParsedAs(Num((12 * DigitsVal(f) + DigitsVal(w)) * DigitsVal(d)
                                            + DigitsVal(n), DigitsVal(d)))

\* ─── extractDimensions (texts written one character per symbol) ────────

ContextRadius == 40

\* the characters that are not word characters (\w) in the texts
NonWordChars == Whitespace \cup {"'", QUOTE, "-", "/", ".", ",", "(", ")", ":", ";", "|"}

IsWordChar(c) == c \notin NonWordChars

\* line.slice(Math.max(0, index - 40), Math.min(line.length, index +
\* match[0].length + 40)).trim() of the match at first..last
contextOf(line, first, last) ==
    LET start == IF first - ContextRadius < 1 THEN 1 ELSE first - ContextRadius
        end == IF last + ContextRadius > Len(line) THEN Len(line)
               ELSE last + ContextRadius
    IN  Trim(SubSeq(line, start, end))

\* the matches of the global feet-inches pattern in line from position from
\* on, each search starting where the match before ended
RECURSIVE ftInMatches(_, _)
ftInMatches(line, from) ==
    With(ftInStarts(line, from), LAMBDA starts :
        IF starts = {} THEN << >>
        ELSE With(ftInAt(line, MinOf(starts)).end, LAMBDA end :
                <<[first |-> MinOf(starts), last |-> end]>>
                \o ftInMatches(line, end + 1)))

\* inches !== null && inches > 0 && inches < 600
InRange(inches) ==
    inches.k # "null" /\ Less(Num(0, 1), inches) /\ Less(inches, Num(600, 1))

\* the hint the first loop pushes for the match m, as a list of none or one
ftInHint(line, lineNo, m) ==
    With(Trim(SubSeq(line, m.first, m.last)), LAMBDA raw :
    With(archDimToInches(raw), LAMBDA inches :
        IF InRange(inches)
        THEN <<[raw |-> raw,
                inches |-> TwoDecimals(inches),
                mm |-> inchesToMm(inches),
                context |-> contextOf(line, m.first, m.last),
                line |-> lineNo]>>
        ELSE << >>))

\* the hints the first loop pushes for one line
ftInHints(line, lineNo) ==
    With(ftInMatches(line, 1), LAMBDA ms :
        Concat([k \in 1..Len(ms) |-> ftInHint(line, lineNo, ms[k])]))

\* (?<!\d'\s*-?\s*): a feet mark with at most blanks and one dash after it
\* ends right before position i
AfterFeetMark(line, i) ==
    \E k \in 2..(i - 1) :
        /\ line[k] = "'" /\ IsDigit(line[k - 1])
        /\ \A j \in (k + 1)..(i - 1) : line[j] \in Whitespace \cup {"-"}
        /\ Cardinality({j \in (k + 1)..(i - 1) : line[j] = "-"}) <= 1

\* the simple-inches pattern matched at i:
\* (?<!\d'\s*-?\s*)(?<!\d)\b(\d+(?:\.\d+)?)\s*"
simpleInAt(line, i) ==
    LET a == DigitsEnd(line, i)
        b == IF CharAt(line, a + 1, ".") /\ DigitsEnd(line, a + 2) >= a + 2
             THEN DigitsEnd(line, a + 2) ELSE a
        q == SpacesEnd(line, b + 1) + 1
    IN  [ok |-> /\ a >= i
                /\ i = 1 \/ ~IsWordChar(line[i - 1])
                /\ ~AfterFeetMark(line, i)
                /\ CharAt(line, q, QUOTE),
         number |-> SubSeq(line, i, b),
         end |-> q]

simpleInStarts(line, from) == {i \in from..Len(line) : simpleInAt(line, i).ok}

RECURSIVE simpleInMatches(_, _)
simpleInMatches(line, from) ==
    With(simpleInStarts(line, from), LAMBDA starts :
        IF starts = {} THEN << >>
        ELSE With(simpleInAt(line, MinOf(starts)).end, LAMBDA end :
                <<[first |-> MinOf(starts), last |-> end]>>
                \o simpleInMatches(line, end + 1)))

\* inches >= 0.25 && inches <= 120
IsSimpleSize(inches) ==
    inches.k = "num" /\ ~Less(inches, Num(1, 4)) /\ ~Less(Num(120, 1), inches)

\* the second loop of one line: the hints so far, then one match at a time
RECURSIVE simpleInLoop(_, _, _, _)
simpleInLoop(line, lineNo, ms, hs) ==
    IF ms = << >> THEN hs
    ELSE LET m == Head(ms)
             raw == Trim(SubSeq(line, m.first, m.last))
             inches == parseFloat(simpleInAt(line, m.first).number)
             alreadyCaptured ==
                \E k \in 1..Len(hs) : hs[k].line = lineNo /\ IsInfix(raw, hs[k].context)
         IN  With(IF IsSimpleSize(inches) /\ ~alreadyCaptured
                  THEN Append(hs, [raw |-> raw, inches |-> inches,
                                   mm |-> inchesToMm(inches),
                                   context |-> contextOf(line, m.first, m.last),
                                   line |-> lineNo])
                  ELSE hs,
                  LAMBDA pushed : simpleInLoop(line, lineNo, Tail(ms), pushed))

RECURSIVE dimensionLines(_, _, _)
dimensionLines(lines, i, hs) ==
    IF i > Len(lines) THEN hs
    ELSE With(hs \o ftInHints(lines[i], i), LAMBDA first :
         With(simpleInMatches(lines[i], 1), LAMBDA ms :
         With(simpleInLoop(lines[i], i, ms, first), LAMBDA second :
            dimensionLines(lines, i + 1, second))))

extractDimensions(text) == dimensionLines(Split(text, NL), 1, << >>)

\* ─── Pattern matching of the preprocessor ──────────────────────────────
\* A pattern is a list of parts; a part is a set of literal alternatives (the
\* empty one for an optional part) after a gap: "+" is \s+, "*" is \s*,
\* "-?" is [\s-]?, ",*" is [\s,]*, "" is no gap. Literals are compared
\* without case (the /i flag).

\* the positions where the text after the gap can start, coming from p
AfterGap(s, p, gap) ==
    LET run(S) == {q \in p..(Len(s) + 1) : \A j \in p..(q - 1) : s[j] \in S}
    IN  CASE gap = "" -> {p}
          [] gap = "+" -> run(Whitespace) \ {p}
          [] gap = "*" -> run(Whitespace)
          [] gap = "-?" -> {p} \cup {q \in {p + 1} : CharAt(s, p, "-") \/ (p <= Len(s) /\ s[p] \in Whitespace)}
          [] gap = ",*" -> run(Whitespace \cup {","})

\* the positions after part k of pat, coming from the positions P
AfterPart(s, P, pat, k) ==
    UNION {{q + Len(a) : a \in {b \in pat[k].alts : MatchAtCI(s, q, b) \/ b = << >>}} :
            q \in UNION {AfterGap(s, p, pat[k].gap) : p \in P}}

RECURSIVE AfterParts(_, _, _, _)
AfterParts(s, P, pat, k) ==
    IF k > Len(pat) \/ P = {} THEN P
    ELSE AfterParts(s, AfterPart(s, P, pat, k), pat, k + 1)

\* pat matches s at position i
MatchesAt(s, i, pat) == AfterParts(s, {i}, pat, 1) # {}

\* the last position of the match of pat at i
MatchLast(s, i, pat) == MaxOf(AfterParts(s, {i}, pat, 1)) - 1

\* the number of matches text.match(/pat/g) returns: each search starts
\* where the match before ended
RECURSIVE CountMatches(_, _, _)
CountMatches(s, from, pat) ==
    LET at == {i \in from..Len(s) : MatchesAt(s, i, pat)}
    IN  IF at = {} THEN 0
        ELSE 1 + CountMatches(s, MatchLast(s, MinOf(at), pat) + 1, pat)

\* pattern.test(s)
TestPattern(s, pat) == \E i \in 1..Len(s) : MatchesAt(s, i, pat)

\* ─── detectAssembly ────────────────────────────────────────────────────

ASSEMBLY_KEYWORDS ==
    <<[type |-> "reception_desk", name |-> "Reception Desk",
       pattern |-> <<[gap |-> "", alts |-> {<<"R", "E", "C", "E", "P", "T", "I", "O", "N">>}],
        [gap |-> "+", alts |-> {<<"D", "E", "S", "K">>}]>>],
      [type |-> "reception_desk", name |-> "Front Desk",
       pattern |-> <<[gap |-> "", alts |-> {<<"F", "R", "O", "N", "T">>}],
        [gap |-> "+", alts |-> {<<"D", "E", "S", "K">>}]>>],
      [type |-> "nurse_station", name |-> "Nurse Station",
       pattern |-> <<[gap |-> "", alts |-> {<<"N", "U", "R", "S", "E">>}],
        [gap |-> "*", alts |-> {<<"'", "S">>, <<"S">>, << >>}],
        [gap |-> "+", alts |-> {<<"S", "T", "A", "T", "I", "O", "N">>}]>>],
      [type |-> "checkin_counter", name |-> "Check-In Counter",
       pattern |-> <<[gap |-> "", alts |-> {<<"C", "H", "E", "C", "K">>}],
        [gap |-> "-?", alts |-> {<<"I", "N">>}],
        [gap |-> "+", alts |-> {<<"D", "E", "S", "K">>, <<"C", "O", "U", "N", "T", "E", "R">>, <<"S", "T", "A", "T", "I", "O", "N">>}]>>],
      [type |-> "service_counter", name |-> "Service Counter",
       pattern |-> <<[gap |-> "", alts |-> {<<"S", "E", "R", "V", "I", "C", "E">>}],
        [gap |-> "+", alts |-> {<<"D", "E", "S", "K">>, <<"C", "O", "U", "N", "T", "E", "R">>}]>>],
      [type |-> "vanity_run", name |-> "Vanity Run",
       pattern |-> <<[gap |-> "", alts |-> {<<"V", "A", "N", "I", "T", "Y">>}],
        [gap |-> "+", alts |-> {<<"R", "U", "N">>, <<"C", "O", "U", "N", "T", "E", "R">>, <<"T", "O", "P">>}]>>],
      [type |-> "teller_line", name |-> "Teller Line",
       pattern |-> <<[gap |-> "", alts |-> {<<"T", "E", "L", "L", "E", "R">>}],
        [gap |-> "+", alts |-> {<<"L", "I", "N", "E">>, <<"C", "O", "U", "N", "T", "E", "R">>, <<"S", "T", "A", "T", "I", "O", "N">>}]>>],
      [type |-> "concession", name |-> "Concession Stand",
       pattern |-> <<[gap |-> "", alts |-> {<<"C", "O", "N", "C", "E", "S", "S", "I", "O", "N">>}],
        [gap |-> "+", alts |-> {<<"S", "T", "A", "N", "D">>, <<"C", "O", "U", "N", "T", "E", "R">>}]>>],
      [type |-> "display_case", name |-> "Display Case",
       pattern |-> <<[gap |-> "", alts |-> {<<"D", "I", "S", "P", "L", "A", "Y">>}],
        [gap |-> "+", alts |-> {<<"C", "A", "S", "E">>}]>>],
      [type |-> "breakroom_casework", name |-> "Breakroom Casework",
       pattern |-> <<[gap |-> "", alts |-> {<<"B", "R", "E", "A", "K">>}],
        [gap |-> "*", alts |-> {<<"R", "O", "O", "M">>}],
        [gap |-> "+", alts |-> {<<"C", "A", "B", "I", "N", "E", "T">>, <<"C", "A", "S", "E", "W", "O", "R", "K">>, <<"M", "I", "L", "L", "W", "O", "R", "K">>}]>>],
      [type |-> "locker_room_vanity", name |-> "Locker Room Vanity",
       pattern |-> <<[gap |-> "", alts |-> {<<"L", "O", "C", "K", "E", "R">>}],
        [gap |-> "+", alts |-> {<<"R", "O", "O", "M">>}],
        [gap |-> "+", alts |-> {<<"V", "A", "N", "I", "T">>, <<"C", "A", "S", "E", "W", "O", "R", "K">>}]>>],
      [type |-> "retail_trellis", name |-> "Retail Trellis",
       pattern |-> <<[gap |-> "", alts |-> {<<"R", "E", "T", "A", "I", "L">>}],
        [gap |-> "+", alts |-> {<<"T", "R", "E", "L", "L", "I", "S">>}]>>]>>

\* count > best: a keyword replaces the best one only when it occurs more often
MoreOften(count, best) == count > best

\* the loop over ASSEMBLY_KEYWORDS: best is 0 or the index of the best keyword
RECURSIVE bestKeyword(_, _, _)
bestKeyword(text, k, best) ==
    IF k > Len(ASSEMBLY_KEYWORDS) THEN best
    ELSE With(CountMatches(text, 1, ASSEMBLY_KEYWORDS[k].pattern), LAMBDA count :
         With(IF count > 0
                 /\ (best = 0 \/ MoreOften(count,
                        CountMatches(text, 1, ASSEMBLY_KEYWORDS[best].pattern)))
              THEN k ELSE best,
              LAMBDA leader : bestKeyword(text, k + 1, leader)))

MinTitleOccurrences == 3

\* i is at a word boundary (\b) of s: between a word character and none
AtBoundary(s, i) ==
    (i >= 2 /\ i - 1 <= Len(s) /\ IsWordChar(s[i - 1])) # (i >= 1 /\ i <= Len(s) /\ IsWordChar(s[i]))

\* /\b(\d+[A-D])\b/g: the section identifiers of the text
SectionIds(text) ==
    {SubSeq(text, i, DigitsEnd(text, i) + 1) :
        i \in {j \in 1..Len(text) :
                /\ AtBoundary(text, j)
                /\ DigitsEnd(text, j) >= j
                /\ DigitsEnd(text, j) + 1 <= Len(text)
                /\ text[DigitsEnd(text, j) + 1] \in {"A", "B", "C", "D"}
                /\ AtBoundary(text, DigitsEnd(text, j) + 2)}}

\* /\b(\d{1,2})\s*[\/\\]?\s*A\d+\.\d+/ matched at i
detailAt(text, i) ==
    LET a == DigitsEnd(text, i)
        b == SpacesEnd(text, a + 1)
        c == IF CharAt(text, b + 1, "/") \/ CharAt(text, b + 1, "\\") THEN b + 1 ELSE b
        d == SpacesEnd(text, c + 1) + 1
        e == DigitsEnd(text, d + 1)
        f == DigitsEnd(text, e + 2)
    IN  [ok |-> /\ AtBoundary(text, i) /\ a >= i /\ a <= i + 1
                /\ CharAt(text, d, "A") /\ e >= d + 1
                /\ CharAt(text, e + 1, ".") /\ f >= e + 2,
         num |-> SubSeq(text, i, a),
         end |-> f]

RECURSIVE detailNums(_, _)
detailNums(text, from) ==
    LET at == {i \in from..Len(text) : detailAt(text, i).ok}
    IN  IF at = {} THEN {}
        ELSE {detailAt(text, MinOf(at)).num}
             \cup detailNums(text, detailAt(text, MinOf(at)).end + 1)

\* null is the empty record list; sections stands for the sorted list
\* without duplicates
NoAssembly == [found |-> FALSE, name |-> "", type |-> "", detailCount |-> 0,
               sections |-> {}, titleOccurrences |-> 0]

detectAssembly(text) ==
    LET best == bestKeyword(text, 1, 0)
        count == IF best = 0 THEN 0
                 ELSE CountMatches(text, 1, ASSEMBLY_KEYWORDS[best].pattern)
        details == Cardinality(detailNums(text, 1))
    IN  IF best = 0 \/ count < MinTitleOccurrences THEN NoAssembly
        ELSE [found |-> TRUE,
              name |-> ASSEMBLY_KEYWORDS[best].name,
              type |-> ASSEMBLY_KEYWORDS[best].type,
              detailCount |-> IF details # 0 THEN details ELSE count,
              sections |-> SectionIds(text),
              titleOccurrences |-> count]

\* ─── cleanOcrText ──────────────────────────────────────────────────────

\* the symbols that stand for the typographic quotes and the form feed
LSQUO == "<lsquo>"
RSQUO == "<rsquo>"
LDQUO == "<ldquo>"
RDQUO == "<rdquo>"
FF == "<ff>"

\* the symbols of s at the positions keep, in order
Keep(s, keep) ==
    LET tagged == SelectSeq([i \in 1..Len(s) |-> <<i, s[i]>>], LAMBDA p : p[1] \in keep)
    IN  [k \in 1..Len(tagged) |-> tagged[k][2]]

cleanOcrText(text) ==
    LET blank == {SP, "\t"}
        \* .replace(/[ \t]+/g, " ")
        s0 == Keep(text, {i \in 1..Len(text) :
                    ~(text[i] \in blank /\ i > 1 /\ text[i - 1] \in blank)})
        s1 == [k \in 1..Len(s0) |-> IF s0[k] = "\t" THEN SP ELSE s0[k]]
        \* .replace(/[|}{]/g, "")
        s2 == SelectSeq(s1, LAMBDA c : c \notin {"|", "}", "{"})
        \* the quotes and .replace(/\f/g, "\n")
        s5 == [k \in 1..Len(s2) |->
                IF s2[k] \in {LSQUO, RSQUO} THEN "'"
                ELSE IF s2[k] \in {LDQUO, RDQUO} THEN QUOTE
                ELSE IF s2[k] = FF THEN NL ELSE s2[k]]
        \* .replace(/\n{3,}/g, "\n\n")
        s6 == Keep(s5, {i \in 1..Len(s5) :
                ~(s5[i] = NL /\ i > 2 /\ s5[i - 1] = NL /\ s5[i - 2] = NL)})
    IN  Trim(s6)

\* ─── extractMaterials ──────────────────────────────────────────────────

MATERIAL_LOOKUP ==
    <<[code |-> <<"P", "L", "-", "0", "1">>, fullName |-> "Plastic Laminate, Vertical Wood Grain (Primary)", category |-> "laminate"],
      [code |-> <<"P", "L", "-", "1", "0">>, fullName |-> "Plastic Laminate, Vertical Wood Grain (Alternate)", category |-> "laminate"],
      [code |-> <<"P", "L", "-", "1">>, fullName |-> "Plastic Laminate", category |-> "laminate"],
      [code |-> <<"S", "S", "-", "1", "B">>, fullName |-> "Solid Surface Countertop (Primary)", category |-> "solid_surface"],
      [code |-> <<"S", "S", "-", "6">>, fullName |-> "Solid Surface Countertop (Alternate)", category |-> "solid_surface"],
      [code |-> <<"F", "B", "-", "0", "1">>, fullName |-> "4in Black Rubber Base", category |-> "rubber"]>>

\* the named materials; wb marks the pattern with \b on both sides
namedPatterns ==
    <<[pattern |-> <<[gap |-> "", alts |-> {<<"p", "l", "a", "s", "t", "i", "c">>}], [gap |-> "+", alts |-> {<<"l", "a", "m", "i", "n", "a", "t", "e">>}]>>,
       fullName |-> "Plastic Laminate", category |-> "laminate", code |-> <<"P", "L", "A", "M">>, wb |-> FALSE],
      [pattern |-> <<[gap |-> "", alts |-> {<<"s", "o", "l", "i", "d">>}], [gap |-> "+", alts |-> {<<"s", "u", "r", "f", "a", "c", "e">>}]>>,
       fullName |-> "Solid Surface", category |-> "solid_surface", code |-> <<"S", "S">>, wb |-> FALSE],
      [pattern |-> <<[gap |-> "", alts |-> {<<"w", "h", "i", "t", "e">>}], [gap |-> "+", alts |-> {<<"m", "e", "l", "a", "m", "i", "n", "e">>}]>>,
       fullName |-> "White Melamine", category |-> "melamine", code |-> <<"M", "E", "L", "-", "W", "H", "T">>, wb |-> FALSE],
      [pattern |-> <<[gap |-> "", alts |-> {<<"3">>}], [gap |-> "*", alts |-> {<<"f", "o", "r", "m">>}], [gap |-> ",*", alts |-> {<<"c", "h", "r", "o", "m", "a">>}], [gap |-> ",*", alts |-> {<<"v", "a", "p", "o", "r">>}]>>,
       fullName |-> "3Form Chroma Vapor Renewable Matte 1/2in", category |-> "specialty", code |-> <<"3", "F", "O", "R", "M", "-", "V", "A", "P", "O", "R">>, wb |-> FALSE],
      [pattern |-> <<[gap |-> "", alts |-> {<<"3">>}], [gap |-> "*", alts |-> {<<"f", "o", "r", "m">>}]>>,
       fullName |-> "3Form Panel", category |-> "specialty", code |-> <<"3", "F", "O", "R", "M">>, wb |-> FALSE],
      [pattern |-> <<[gap |-> "", alts |-> {<<"p", "l", "y", "w", "o", "o", "d">>}]>>,
       fullName |-> "Plywood Substrate", category |-> "substrate", code |-> <<"P", "L", "Y">>, wb |-> TRUE],
      [pattern |-> <<[gap |-> "", alts |-> {<<"r", "u", "b", "b", "e", "r">>}], [gap |-> "+", alts |-> {<<"b", "a", "s", "e">>}]>>,
       fullName |-> "Rubber Base", category |-> "rubber", code |-> <<"R", "B">>, wb |-> FALSE],
      [pattern |-> <<[gap |-> "", alts |-> {<<"a", "l", "u", "m", "i", "n", "u", "m">>}], [gap |-> "+", alts |-> {<<"t", "r", "i", "m">>}]>>,
       fullName |-> "Aluminum Trim, Clear Anodized", category |-> "aluminum", code |-> <<"A", "L", "M", "-", "T", "R", "I", "M">>, wb |-> FALSE],
      [pattern |-> <<[gap |-> "", alts |-> {<<"a", "l", "u", "m", "i", "n", "u", "m">>}], [gap |-> "+", alts |-> {<<"c", "h", "a", "n", "n", "e", "l">>}]>>,
       fullName |-> "Aluminum Channel", category |-> "aluminum", code |-> <<"A", "L", "M", "-", "C", "H", "A", "N">>, wb |-> FALSE],
      [pattern |-> <<[gap |-> "", alts |-> {<<"c", "l", "e", "a", "r">>}], [gap |-> "+", alts |-> {<<"a", "n", "o", "d", "i", "z", "e", "d">>}]>>,
       fullName |-> "Clear Anodized Aluminum", category |-> "aluminum", code |-> <<"A", "L", "M", "-", "C", "L", "R">>, wb |-> FALSE]>>

CodePrefixes ==
    {<<"P", "L">>, <<"S", "S">>, <<"F", "B">>, <<"W", "D">>, <<"G", "L">>, <<"S", "T">>,
     <<"M", "E", "T">>, <<"A", "L", "M">>, <<"A", "L">>, <<"H", "W">>}

CapitalLetters ==
    {"A", "B", "C", "D", "E", "F", "G", "H", "I", "J", "K", "L", "M",
     "N", "O", "P", "Q", "R", "S", "T", "U", "V", "W", "X", "Y", "Z"}

IsLetter(c) == c \in CapitalLetters \/ \E u \in CapitalLetters : Lower(u) = c

\* String.prototype.toUpperCase on one character
Upper(c) ==
    IF \E u \in CapitalLetters : Lower(u) = c
    THEN CHOOSE u \in CapitalLetters : Lower(u) = c ELSE c

UpperStr(s) == [i \in 1..Len(s) |-> Upper(s[i])]

\* /\b((?:PL|SS|FB|WD|GL|ST|MET|ALM?|HW)-?\d+[A-Z]?)\b/gi matched at i
codeAt(line, i) ==
    LET pre == {p \in CodePrefixes : MatchAtCI(line, i, p)}
        \* ALM? takes the M when the rest matches after it
        ends == {e \in {i + Len(p) - 1 : p \in pre} :
                    LET a == IF CharAt(line, e + 1, "-") THEN e + 1 ELSE e
                        b == DigitsEnd(line, a + 1)
                    IN  /\ b >= a + 1
                        /\ \/ AtBoundary(line, b + 1)
                           \/ b + 1 <= Len(line) /\ IsLetter(line[b + 1])
                              /\ AtBoundary(line, b + 2)}
        e == MaxOf(ends)
        a == IF CharAt(line, e + 1, "-") THEN e + 1 ELSE e
        b == DigitsEnd(line, a + 1)
    IN  [ok |-> AtBoundary(line, i) /\ ends # {},
         end |-> IF ends = {} THEN 0
                 ELSE IF b + 1 <= Len(line) /\ IsLetter(line[b + 1])
                         /\ AtBoundary(line, b + 2) THEN b + 1 ELSE b]

\* match[1].toUpperCase().replace(/^([A-Z]+)(\d)/, "$1-$2")
normalizeCode(raw) ==
    LET u == UpperStr(raw)
        n == MaxOf({0} \cup {j \in 1..Len(u) : \A k \in 1..j : u[k] \in CapitalLetters})
    IN  IF n >= 1 /\ n < Len(u) /\ IsDigit(u[n + 1])
        THEN SubSeq(u, 1, n) \o <<"-">> \o SubSeq(u, n + 1, Len(u)) ELSE u

materialHint(code, lineNo) ==
    LET known == {k \in 1..Len(MATERIAL_LOOKUP) : MATERIAL_LOOKUP[k].code = code}
    IN  IF known = {}
        THEN [code |-> code, fullName |-> Text(code), category |-> "unknown", line |-> lineNo]
        ELSE [code |-> code, fullName |-> MATERIAL_LOOKUP[MinOf(known)].fullName,
              category |-> MATERIAL_LOOKUP[MinOf(known)].category, line |-> lineNo]

\* the code loop of one line; a hint's code is in seen exactly when pushed
RECURSIVE codeLoop(_, _, _, _)
codeLoop(line, lineNo, from, hs) ==
    LET at == {i \in from..Len(line) : codeAt(line, i).ok}
    IN  IF at = {} THEN hs
        ELSE LET i == MinOf(at)
                 code == normalizeCode(SubSeq(line, i, codeAt(line, i).end))
             IN  With(IF \E k \in 1..Len(hs) : hs[k].code = code THEN hs
                      ELSE Append(hs, materialHint(code, lineNo)),
                      LAMBDA pushed :
                        With(codeAt(line, i).end + 1, LAMBDA next :
                            codeLoop(line, lineNo, next, pushed)))

\* np.pattern.test(line)
TestNamed(line, np) ==
    \E i \in 1..Len(line) :
        /\ MatchesAt(line, i, np.pattern)
        /\ np.wb => AtBoundary(line, i) /\ AtBoundary(line, MatchLast(line, i, np.pattern) + 1)

RECURSIVE namedLoop(_, _, _, _)
namedLoop(line, lineNo, k, hs) ==
    IF k > Len(namedPatterns) THEN hs
    ELSE With(IF TestNamed(line, namedPatterns[k])
                 /\ ~\E j \in 1..Len(hs) : hs[j].code = namedPatterns[k].code
              THEN Append(hs, [code |-> namedPatterns[k].code,
                               fullName |-> namedPatterns[k].fullName,
                               category |-> namedPatterns[k].category, line |-> lineNo])
              ELSE hs,
              LAMBDA pushed : namedLoop(line, lineNo, k + 1, pushed))

RECURSIVE materialLines(_, _, _)
materialLines(lines, i, hs) ==
    IF i > Len(lines) THEN hs
    ELSE With(codeLoop(lines[i], i, 1, hs), LAMBDA coded :
         With(namedLoop(lines[i], i, 1, coded), LAMBDA named :
            materialLines(lines, i + 1, named)))

extractMaterials(text) == materialLines(Split(text, NL), 1, << >>)

\* ─── preprocess ────────────────────────────────────────────────────────
\* the fields of the result that hold the text, the assembly, the dimension
\* and the material hints; the hardware, equipment and detail-reference
\* lists and the signal strength are computed from cleanedText alone and
\* read by none of the fields here

preprocess(text) ==
    With(cleanOcrText(text), LAMBDA cleanedText :
        [cleanedText |-> cleanedText,
         assembly |-> detectAssembly(cleanedText),
         dimensions |-> extractDimensions(cleanedText),
         materials |-> extractMaterials(cleanedText),
         lineCount |-> Len(Split(cleanedText, NL))])

\* ─── Hint extraction: preprocess on the text of one room ───────────────

MaxHintLines == 3

\* lines of a drawing page, one character per symbol
HintLines ==
    {<<"R", "e", "c", "e", "p", "t", "i", "o", "n", SP, "D", "e", "s", "k", SP, "4", "'", "-", "5", SP, "1", "/", "2", QUOTE, SP, SP, "P", "L", "-", "0", "1">>,
     <<"r", "e", "c", "e", "p", "t", "i", "o", "n", SP, "d", "e", "s", "k", SP, "5", "A">>,
     <<"R", "E", "C", "E", "P", "T", "I", "O", "N", SP, "D", "E", "S", "K", SP, "-", SP, "R", "e", "c", "e", "p", "t", "i", "o", "n", SP, "D", "e", "s", "k">>,
     <<"F", "r", "o", "n", "t", SP, "D", "e", "s", "k", ",", SP, "F", "r", "o", "n", "t", SP, "D", "e", "s", "k", ",", SP, "F", "r", "o", "n", "t", SP, "D", "e", "s", "k">>,
     <<"0", "'", SP, "-", SP, "4", SP, "5", "/", "1", "6", QUOTE, SP, "x", SP, "5", "0", "'", "-", "0", QUOTE>>}

HintTexts ==
    UNION {{Join(ls, <<NL>>) : ls \in [1..n -> HintLines]} : n \in 1..MaxHintLines}

InitHints ==
    /\ pc = "preprocess"
    /\ doc \in HintTexts
    /\ pages = << >>
    /\ pageIdx = 0
    /\ roomMap = << >>
    /\ bestRoom = ""
    /\ roomInfos = << >>
    /\ parsed = << >>
    /\ hints = << >>
    /\ ServiceIdle
    /\ CodecIdle

\* handler line 887: hints = preprocess(combinedText, sheetRef)
Preprocess ==
    /\ pc = "preprocess"
    /\ hints' = preprocess(doc)
    /\ pc' = "hints"
    /\ UNCHANGED <<codecVars, serviceVars, doc, pages, pageIdx, roomMap, bestRoom, roomInfos, parsed>>

NextHints == Preprocess

SpecHints == InitHints /\ [][NextHints]_vars

\* C13: every dimension hint holds the millimeters that are the rounding of
\* 25.4 times the inches stored in the same hint, and inches above 0 and
\* below 600.
C13_HintInvariant ==
    pc = "hints" =>
        \A k \in 1..Len(hints.dimensions) :
            /\ IsRoundedMm(hints.dimensions[k].mm, hints.dimensions[k].inches)
            /\ Less(Num(0, 1), hints.dimensions[k].inches)
            /\ Less(hints.dimensions[k].inches, Num(600, 1))

\* what holds instead: the millimeters are the rounding of 25.4 times the
\* inches the raw text resolves to, which are above 0 and below 600, and the
\* inches stored are those rounded to two decimals
C13_MmOfResolvedInches ==
    pc = "hints" =>
        \A k \in 1..Len(hints.dimensions) :
            LET h == hints.dimensions[k]
                x == archDimToInches(h.raw)
            IN  /\ x.k = "num" /\ 0 < x.n /\ x.n < 600 * x.d
                /\ IsRoundedMm(h.mm, x)
                /\ h.inches.k = "num" /\ h.inches.d = 100
                /\ 2 * Abs(h.inches.n * x.d - 100 * x.n) <= x.d

\* the number of places where the phrase stands in the text, in any case
Occurrences(text, phrase) ==
    Cardinality({i \in 1..Len(text) : MatchAtCI(text, i, phrase)})

ReceptionDeskPhrase == <<"R", "e", "c", "e", "p", "t", "i", "o", "n", SP, "D", "e", "s", "k">>
DeskDimension == <<"4", "'", "-", "5", SP, "1", "/", "2", QUOTE>>
LaminateCode == <<"P", "L", "-", "0", "1">>

\* the text of the end-to-end example
IsReceptionDeskText(text) ==
    /\ Occurrences(text, ReceptionDeskPhrase) >= 3
    /\ IsInfix(DeskDimension, text)
    /\ IsInfix(LaminateCode, text)

\* a whole number followed by one of A to D stands in the text as a word
HasSectionMark(text) ==
    \E i \in 1..Len(text), j \in 1..Len(text) :
        /\ i < j
        /\ \A k \in i..(j - 1) : IsDigit(text[k])
        /\ i = 1 \/ ~IsWordChar(text[i - 1])
        /\ text[j] \in {"A", "B", "C", "D"}
        /\ j = Len(text) \/ ~IsWordChar(text[j + 1])

\* no other assembly phrase is matched more often than Reception Desk
ReceptionDeskLeads(text) ==
    \A k \in 2..Len(ASSEMBLY_KEYWORDS) :
        CountMatches(text, 1, ASSEMBLY_KEYWORDS[k].pattern)
            <= Occurrences(text, ReceptionDeskPhrase)

HasDimensionOf(mm) ==
    \E k \in 1..Len(hints.dimensions) : Same(hints.dimensions[k].mm, Num(mm, 1))

\* C14 as stated: every text with Reception Desk at least 3 times, a
\* 4'-5 1/2" dimension and the code PL-01 gets an assembly hint named
\* Reception Desk with at least one section id, and a dimension hint of
\* 1359 mm.
C14_EndToEnd ==
    (pc = "hints" /\ IsReceptionDeskText(doc)) =>
        /\ hints.assembly.found
        /\ hints.assembly.name = "Reception Desk"
        /\ hints.assembly.sections # {}
        /\ HasDimensionOf(1359)

\* C14 amended: such a text, in which no other assembly phrase stands more
\* often, gets an assembly hint named Reception Desk, a dimension hint of
\* 1359 mm and a material hint PL-01; the hint has a section id exactly
\* when the text holds a section mark such as 5A.
C14_EndToEndAmended ==
    (pc = "hints" /\ IsReceptionDeskText(doc) /\ ReceptionDeskLeads(doc)) =>
        /\ hints.assembly.found
        /\ hints.assembly.name = "Reception Desk"
        /\ hints.assembly.titleOccurrences >= 3
        /\ hints.assembly.sections # {} <=> HasSectionMark(doc)
        /\ HasDimensionOf(1359)
        /\ \E k \in 1..Len(hints.materials) : hints.materials[k].code = LaminateCode

\* a Reception Desk text with a section mark
C14_Witness ==
    /\ pc = "hints"
    /\ IsReceptionDeskText(doc)
    /\ HasSectionMark(doc)
    /\ hints.assembly.found
    /\ hints.assembly.sections # {}

\* ─── callAnthropic: the generator call and its retries ─────────────────

\* the last attempt number of the loop: the literal 2 of
\* src/scope-extractor-v14.ts, and maxRetries of the v14.2 handler
LastAttempt == 2
MaxRetriesV142 == 3

Builds == {LastAttempt, MaxRetriesV142}

\* how one call of anthropic.messages.create ends: with a message, or with
\* an error carrying err.status, err.error.status and err.error.type
\* (0 stands for a status that is not there)
Answered == [ok |-> TRUE, status |-> 200, error |-> [status |-> 0, type |-> ""]]

ApiError(status, errorStatus, errorType) ==
    [ok |-> FALSE, status |-> status,
     error |-> [status |-> errorStatus, type |-> errorType]]

GeneratorErrors ==
    {ApiError(429, 0, "rate_limit_error"),
     ApiError(0, 0, "rate_limit_error"),
     ApiError(0, 429, "error"),
     ApiError(529, 0, "overloaded_error")}

\* v14.3: is429 = err?.status === 429 || err?.error?.type === "rate_limit_error"
is429(err) == err.status = 429 \/ err.error.type = "rate_limit_error"

\* v14.2: status = err?.status || err?.error?.status, then the same test
isRateLimit(err) ==
    LET status == IF err.status # 0 THEN err.status ELSE err.error.status
    IN  status = 429 \/ err.error.type = "rate_limit_error"

\* every failed call taken for a rate limit
anyFailure(err) == ~err.ok

\* the catch block's test of the build in use
retryable(err) == IF maxRetries = LastAttempt THEN is429(err) ELSE isRateLimit(err)

\* wait = 15000 * Math.pow(2, attempt)
backoff(n) == 15000 * 2^n

InitCall ==
    /\ pc = "call"
    /\ maxRetries \in Builds
    /\ attempt = 0
    /\ calls = << >>
    /\ waits = << >>
    /\ outcome = "pending"
    /\ ClientIdle
    /\ HandlerIdle
    /\ TextIdle
    /\ CodecIdle

\* a turn of the loop whose call answers: return the text
CallReturns ==
    /\ pc = "call"
    /\ attempt <= maxRetries
    /\ calls' = Append(calls, Answered)
    /\ outcome' = "returned"
    /\ pc' = "called"
    /\ UNCHANGED <<codecVars, doc, pages, pageIdx, roomMap, bestRoom, roomInfos,
                   hintVars, clientVars, handlerVars, maxRetries, attempt, waits>>

\* a turn whose call fails with a rate limit before the last attempt:
\* sleep, then continue with the next attempt
CallRetried ==
    /\ pc = "call"
    /\ attempt < maxRetries
    /\ \E err \in GeneratorErrors :
        /\ retryable(err)
        /\ calls' = Append(calls, err)
    /\ waits' = Append(waits, backoff(attempt))
    /\ attempt' = attempt + 1
    /\ UNCHANGED <<pc, codecVars, doc, pages, pageIdx, roomMap, bestRoom, roomInfos,
                   hintVars, clientVars, handlerVars, maxRetries, outcome>>

\* a turn whose call fails otherwise, or on the last attempt: throw err
CallThrows ==
    /\ pc = "call"
    /\ attempt <= maxRetries
    /\ \E err \in GeneratorErrors :
        /\ ~(retryable(err) /\ attempt < maxRetries)
        /\ calls' = Append(calls, err)
    /\ outcome' = "thrown"
    /\ pc' = "called"
    /\ UNCHANGED <<codecVars, doc, pages, pageIdx, roomMap, bestRoom, roomInfos,
                   hintVars, clientVars, handlerVars, maxRetries, attempt, waits>>

\* The loop is never left by its condition: the turn of the last attempt
\* returns or throws, so the closing throw "Max retries exceeded" is dead.
NextCall == CallReturns \/ CallRetried \/ CallThrows

SpecCall == InitCall /\ [][NextCall]_vars

\* a failure that signals a rate limit, in any of the places an error
\* carries it
RateLimitSignal(err) ==
    /\ ~err.ok
    /\ \/ 429 \in {err.status, err.error.status}
       \/ err.error.type = "rate_limit_error"

\* One invocation makes at most cap generator calls; every call but the
\* last failed with a rate-limit signal and was followed by one wait, the
\* waits being 15 s, 30 s, ... doubling; the invocation returns only on a
\* call that answered and throws only on a call that failed, at once; a
\* failure of call number cap is thrown.
BackoffWithin(cap) ==
    pc \in {"call", "called"} =>
        /\ Len(calls) <= cap
        /\ \A k \in 1..Len(waits) : waits[k] = 15000 * 2^(k - 1)
        /\ \A k \in 1..Len(waits) : RateLimitSignal(calls[k])
        /\ outcome = "pending" => pc = "call" /\ Len(calls) = Len(waits)
        /\ outcome # "pending" => pc = "called" /\ Len(calls) = Len(waits) + 1
        /\ outcome = "returned" => calls[Len(calls)].ok
        /\ outcome = "thrown" => ~calls[Len(calls)].ok
        /\ Len(calls) = cap => outcome # "pending"

\* C15: one invocation of callAnthropic makes at most 3 generator calls; it
\* retries only after a rate-limit failure, waiting 15 s and then 30 s; any
\* other failure is thrown at once, and a rate-limit failure on the last
\* attempt is thrown.
C15_BoundedBackoff == BackoffWithin(3)

\* C15, amended: the same with the build's own cap, maxRetries + 1 calls
\* (3 in v14.3, 4 in v14.2, whose third wait is 60 s).
C15_BoundedBackoffAmended == BackoffWithin(maxRetries + 1)

\* three rate limits in a row under the cap of three: two waits, then thrown
C15_Witness ==
    /\ pc = "called"
    /\ maxRetries = LastAttempt
    /\ outcome = "thrown"
    /\ Len(calls) = 3
    /\ waits = <<15000, 30000>>
    /\ RateLimitSignal(calls[3])

\* ─── page.tsx: handleExtract's room loop ───────────────────────────────

MaxRooms == 2

MAX_RETRIES_PER_ROOM == 2

\* the rooms the analyze request returned
ClientRoomNames == {"Reception Desk", "Kids Club", "Unclassified"}

ClientRooms ==
    UNION {{[i \in 1..n |-> [roomName |-> names[i],
                             roomId |-> <<"ROOM-">> \o PadStart3(NumStr(i)),
                             pageNums |-> <<i>>]] :
               names \in {f \in [1..n -> ClientRoomNames] :
                             \A a, b \in 1..n : f[a] = f[b] => a = b}} :
           n \in 1..MaxRooms}

\* the rows of an extract response, by item_id; the handler writes the
\* requested room into every row (handler line 931)
RowsOf(roomName, ids) == [k \in 1..Len(ids) |-> [item_id |-> ids[k], room |-> roomName]]

\* What the fetch of one room can end in: the handler's responses
\* (200 with ok, 400 for a response that is no valid TOON, 500 with the
\* message of what was thrown), a 429 of the platform without a JSON body,
\* or a fetch that throws.  An error is a string of words.
Extracted(roomName, ids, ws) ==
    [thrown |-> FALSE, status |-> 200, ok |-> TRUE, error |-> << >>,
     rows |-> RowsOf(roomName, ids), warnings |-> ws]

Refused(status, error) ==
    [thrown |-> FALSE, status |-> status, ok |-> FALSE, error |-> error,
     rows |-> << >>, warnings |-> << >>]

Unreachable ==
    [thrown |-> TRUE, status |-> 0, ok |-> FALSE, error |-> <<"Failed to fetch">>,
     rows |-> << >>, warnings |-> << >>]

FetchResults(roomName) ==
    {Extracted(roomName, ids, ws) :
        ids \in {<< >>, <<"A">>, <<"A", "B">>},
        ws \in {<< >>, <<<<"A: defaults">>>>}}
    \cup {Refused(400, <<"Model did not return valid TOON">>),
          Refused(500, <<"429 ", "rate_limit", "_error">>),
          Refused(500, <<"Overloaded">>),
          Refused(500, <<"Invalid TOON header">>),
          Refused(429, << >>),
          Unreachable}

\* a guard that lets the last retry be followed by one more
retriesLeftOrLast(count) == count <= MAX_RETRIES_PER_ROOM

\* retryCount < MAX_RETRIES_PER_ROOM
retriesLeft(count) == count < MAX_RETRIES_PER_ROOM

\* extractRes.status === 429 || (e.error && e.error.includes("rate_limit"))
rateLimited(r) == r.status = 429 \/ (r.error # << >> /\ Includes(r.error, "rate_limit"))

\* the text alone
bareWarning(room, text) == text

\* the template of the warnings: [roomName] and the text
roomWarning(room, text) == <<"[", room.roomName, "] ">> \o text

\* e.error || extractRes.status
errorOrStatus(r) == IF r.error # << >> THEN r.error ELSE NumStr(r.status)

roomResult(room, status, itemCount) ==
    [room |-> room.roomName, status |-> status, itemCount |-> itemCount]

InitClient ==
    /\ pc = "extracting"
    /\ roomInfos \in ClientRooms
    /\ roomIndex = 0
    /\ retryCount = 0
    /\ allRows = << >>
    /\ allWarnings = << >>
    /\ roomResults = << >>
    /\ fetches = << >>
    /\ doc = << >> /\ pages = << >> /\ pageIdx = 0 /\ roomMap = << >>
    /\ bestRoom = "" /\ parsed = << >> /\ hints = << >>
    /\ CallIdle
    /\ HandlerIdle
    /\ CodecIdle

\* a turn of the loop whose response is ok: collect rows and warnings
RoomExtracted ==
    /\ pc = "extracting"
    /\ roomIndex < Len(roomInfos)
    /\ LET room == roomInfos[roomIndex + 1]
       IN  \E r \in FetchResults(room.roomName) :
            /\ ~r.thrown /\ r.status = 200 /\ r.ok
            /\ allRows' = allRows \o r.rows
            /\ allWarnings' = allWarnings \o
                    [k \in 1..Len(r.warnings) |-> roomWarning(room, r.warnings[k])]
            /\ roomResults' = Append(roomResults, roomResult(room, "ok", Len(r.rows)))
            /\ fetches' = Append(fetches, room.roomName)
    /\ retryCount' = 0
    /\ roomIndex' = roomIndex + 1
    /\ UNCHANGED <<pc, codecVars, callVars, handlerVars, hintVars,
                   doc, pages, pageIdx, roomMap, bestRoom, roomInfos>>

\* a turn that ends in a rate limit with retries left: the same room again
RoomRetried ==
    /\ pc = "extracting"
    /\ roomIndex < Len(roomInfos)
    /\ \E r \in FetchResults(roomInfos[roomIndex + 1].roomName) :
        /\ ~r.thrown /\ r.status # 200
        /\ rateLimited(r) /\ retriesLeft(retryCount)
    /\ fetches' = Append(fetches, roomInfos[roomIndex + 1].roomName)
    /\ retryCount' = retryCount + 1
    /\ UNCHANGED <<pc, codecVars, callVars, handlerVars, hintVars, doc, pages, pageIdx,
                   roomMap, bestRoom, roomInfos, roomIndex, allRows, allWarnings,
                   roomResults>>

\* a turn whose response is not ok otherwise: warn, go on with the next room
RoomFailed ==
    /\ pc = "extracting"
    /\ roomIndex < Len(roomInfos)
    /\ LET room == roomInfos[roomIndex + 1]
       IN  \E r \in FetchResults(room.roomName) :
            /\ ~r.thrown /\ r.status # 200
            /\ ~(rateLimited(r) /\ retriesLeft(retryCount))
            /\ allWarnings' = Append(allWarnings,
                                     roomWarning(room, <<"Error: ">> \o errorOrStatus(r)))
            /\ roomResults' = Append(roomResults, roomResult(room, "failed", 0))
            /\ fetches' = Append(fetches, room.roomName)
    /\ retryCount' = 0
    /\ roomIndex' = roomIndex + 1
    /\ UNCHANGED <<pc, codecVars, callVars, handlerVars, hintVars, doc, pages, pageIdx,
                   roomMap, bestRoom, roomInfos, allRows>>

\* a turn whose fetch throws: warn with the message, go on with the next room
RoomErrored ==
    /\ pc = "extracting"
    /\ roomIndex < Len(roomInfos)
    /\ LET room == roomInfos[roomIndex + 1]
       IN  \E r \in FetchResults(room.roomName) :
            /\ r.thrown
            /\ allWarnings' = Append(allWarnings, roomWarning(room, r.error))
            /\ roomResults' = Append(roomResults, roomResult(room, "error", 0))
            /\ fetches' = Append(fetches, room.roomName)
    /\ retryCount' = 0
    /\ roomIndex' = roomIndex + 1
    /\ UNCHANGED <<pc, codecVars, callVars, handlerVars, hintVars, doc, pages, pageIdx,
                   roomMap, bestRoom, roomInfos, allRows>>

\* the loop is over: on to the workbook
FinishExtract ==
    /\ pc = "extracting"
    /\ roomIndex = Len(roomInfos)
    /\ pc' = "building"
    /\ UNCHANGED <<codecVars, groupVars>>

\* The handler answers 200 only with ok: true, so the branch of a 200
\* response without ok (lines 222-225) is never taken.
NextClient == RoomExtracted \/ RoomRetried \/ RoomFailed \/ RoomErrored \/ FinishExtract

SpecClient == InitClient /\ [][NextClient]_vars

PrefixOf(a, b) == Len(a) <= Len(b) /\ SubSeq(b, 1, Len(a)) = a

\* the warning starts with the room's name in brackets
NamesRoom(w, name) == Len(w) >= 3 /\ w[1] = "[" /\ w[2] = name /\ w[3] = "] "

\* every finished room has its result, in the order of the rooms; a room
\* that failed has a warning naming it and no row; the loop ends only after
\* every room
RoomFailuresScoped ==
    pc \in {"extracting", "building"} =>
        /\ Len(roomResults) = roomIndex
        /\ pc = "building" => roomIndex = Len(roomInfos)
        /\ \A k \in 1..Len(roomResults) :
            /\ roomResults[k].room = roomInfos[k].roomName
            /\ roomResults[k].status # "ok" =>
                /\ roomResults[k].itemCount = 0
                /\ \E j \in 1..Len(allWarnings) :
                        NamesRoom(allWarnings[j], roomResults[k].room)
                /\ \A j \in 1..Len(allRows) : allRows[j].room # roomResults[k].room

\* what was collected stays as it is; the step that records a failed room
\* adds one warning and no row
CollectedKept ==
    /\ PrefixOf(allRows, allRows')
    /\ PrefixOf(allWarnings, allWarnings')
    /\ PrefixOf(roomResults, roomResults')
    /\ (Len(roomResults') > Len(roomResults)
            /\ roomResults'[Len(roomResults')].status # "ok")
        => /\ allRows' = allRows
           /\ Len(allWarnings') = Len(allWarnings) + 1

\* C16: when the extraction of one room fails (generator error, retries
\* exhausted, or a response that is no valid TOON), a warning naming that
\* room is recorded, the room contributes no rows, every remaining room is
\* still extracted, and the rows and warnings collected before are unchanged.
C16_RoomScopedFailure == []RoomFailuresScoped /\ [][CollectedKept]_vars

\* the first of two rooms failed, the second gave its two rows
C16_Witness ==
    /\ pc = "building"
    /\ Len(roomResults) = 2
    /\ roomResults[1].status = "failed"
    /\ roomResults[2].status = "ok"
    /\ Len(allRows) = 2
    /\ \A j \in 1..2 : allRows[j].room = roomInfos[2].roomName
    /\ NamesRoom(allWarnings[1], roomInfos[1].roomName)

\* ─── The handler of /api/scope-extractor-v14 ───────────────────────────

\* req.body.text: missing, one page of drawing text, a pasted document of
\* two pages
HandlerTexts ==
    {<< >>,
     <<"R", "e", "c", "e", "p", "t", "i", "o", "n", SP, "D", "e", "s", "k", SP,
       "4", "'", "-", "5", SP, "1", "/", "2", QUOTE, SP, "P", "L", "-", "0", "1">>,
     <<"--- PAGE 1 ---", NL, "Lobby", NL, "A7.15", SP, "-", SP, "Laundry", NL,
       "--- PAGE BREAK ---", NL, "Laundry", SP, "Janitor", NL>>}

Requests == [method : {"POST", "GET"}, mode : {"analyze", "extract", ""}]

Environments == [ANTHROPIC_API_KEY : BOOLEAN, OPENAI_API_KEY : BOOLEAN]

\* the texts the generator answers with
HandlerAnswers ==
    LET lines == {Join(RowFields(g), <<";">>) :
                    g \in {r \in GoodRows : r.description = <<"desk">> /\ r.qty = <<"1">>}}
    IN  {HEADER_V14 \o <<NL>> \o l : l \in lines}
        \cup {<<FENCE, "toon", NL>> \o HEADER_V14 \o <<NL>> \o l \o <<NL, FENCE>> : l \in lines}
        \cup {<<"#", "TOON", SP, "v=1">> \o <<NL>> \o l : l \in lines}

\* roomPageTexts.map(p => `--- PAGE ${p.pageNum} ---\n${p.text}`).join("\n\n")
combinedText(ps) ==
    Join([i \in 1..Len(ps) |->
            <<"--- PAGE ">> \o NumStr(ps[i].pageNum) \o <<" ---", NL>> \o ps[i].text],
         <<NL, NL>>)

\* no key is ever taken for missing
neverMissing(e) == FALSE

\* !process.env.ANTHROPIC_API_KEY
keyMissing(e) == ~e.ANTHROPIC_API_KEY

Response(status, error) == [status |-> status, error |-> error]

InitHandler ==
    /\ pc = "request"
    /\ req \in Requests
    /\ env \in Environments
    /\ res = NoResponse
    /\ ctx = NoContext
    /\ allAssemblies = << >>
    /\ doc \in HandlerTexts
    /\ pages = << >> /\ pageIdx = 0 /\ roomMap = << >> /\ bestRoom = ""
    /\ roomInfos = << >> /\ parsed = << >> /\ hints = << >>
    /\ maxRetries = LastAttempt
    /\ attempt = 0 /\ calls = << >> /\ waits = << >> /\ outcome = "pending"
    /\ ClientIdle
    /\ schema = MW_ITEM_SCHEMA_V14
    /\ rows = << >> /\ toon = << >> /\ valid = "unset" /\ decoded = NoResult
    /\ response = << >> /\ warnings = << >>

\* the checks before the try block: method, text, key
HandlerEntry ==
    /\ pc = "request"
    /\ IF req.method # "POST"
       THEN res' = Response(405, "Method Not Allowed") /\ pc' = "responded"
       ELSE IF doc = << >>
       THEN res' = Response(400, "Missing text") /\ pc' = "responded"
       ELSE IF keyMissing(env)
       THEN res' = Response(500, "Missing ANTHROPIC_API_KEY") /\ pc' = "responded"
       ELSE res' = res /\ pc' = IF req.mode = "analyze" THEN "parse" ELSE "extract"
    /\ UNCHANGED <<codecVars, callVars, clientVars, hintVars, req, env, ctx, allAssemblies,
                   doc, pages, pageIdx, roomMap, bestRoom, roomInfos>>

\* extract mode up to the prompts, for a request without roomPages: the
\* pages, the combined text of all of them, the hints
ExtractPrepare ==
    /\ pc = "extract"
    /\ pages' = parsePages(doc)
    /\ hints' = preprocess(combinedText(pages'))
    /\ pc' = "call"
    /\ UNCHANGED <<codecVars, callVars, clientVars, handlerVars,
                   doc, pageIdx, roomMap, bestRoom, roomInfos, parsed>>

\* toon = await callAnthropic(...): the text of the message that answered
TakeAnswer ==
    /\ pc = "called"
    /\ req # NoRequest
    /\ outcome = "returned"
    /\ response' \in HandlerAnswers
    /\ toon' = response'
    /\ pc' = "sanitize"
    /\ UNCHANGED <<groupVars, schema, rows, valid, decoded, warnings>>

\* the responses after the checks: the analysis, the rows, the rejected
\* answer, and what the catch block makes of a thrown error.  The rows of
\* the 200 response are what Postprocess and Cleanup make of decoded; the
\* response is kept by its status and error only.
Respond ==
    /\ req # NoRequest
    /\ \/ pc = "grouped" /\ res' = Response(200, "")
       \/ pc = "postprocess" /\ res' = Response(200, "")
       \/ pc = "rejected" /\ res' = Response(400, "Model did not return valid TOON")
       \/ pc = "called" /\ outcome = "thrown" /\ res' = Response(500, "err.message")
    /\ pc' = "responded"
    /\ UNCHANGED <<codecVars, callVars, clientVars, hintVars, req, env, ctx, allAssemblies,
                   doc, pages, pageIdx, roomMap, bestRoom, roomInfos>>

\* Analyze mode is ParsePages, GroupPage and FinishGroup; the generator call
\* of extract mode is callAnthropic's actions, and its answer goes through
\* Sanitize, CheckResponse and DecodeResponse.  extractProjectContext, the
\* prompts, the page images and the steps on the decoded rows (SpecRepair
\* has postprocess and cleanupRows) are not represented.
NextHandler ==
    \/ HandlerEntry
    \/ ParsePages \/ GroupPage \/ FinishGroup
    \/ ExtractPrepare
    \/ CallReturns \/ CallRetried \/ CallThrows
    \/ TakeAnswer
    \/ Sanitize \/ CheckResponse \/ DecodeResponse
    \/ Respond

SpecHandler == InitHandler /\ [][NextHandler]_vars

C18_OpenAiFallback ==
    (/\ pc = "responded"
     /\ req.method = "POST" /\ doc # << >>
     /\ ~env.ANTHROPIC_API_KEY /\ env.OPENAI_API_KEY) =>
        /\ res.error # "Missing ANTHROPIC_API_KEY"
        /\ req.mode # "analyze" => calls # << >>

\* ─── The order of the stages of one room ───────────────────────────────

\* C19: the generator's text goes through repair, then decode, then
\* postprocess: every repair step, the row-level ones of cleanupRows
\* included, has finished before postprocess runs on the rows, and no repair
\* runs after it.  The rows the handler ends with are then postprocess'
\* rows of the repaired decoded rows.
C19_StageOrder ==
    pc = "done" => rows = postprocess(cleanupRows(decoded.rows)).rows

\* what the handler does: cleanupRows on the rows postprocess returned
C19_CleanupAfterPostprocess ==
    pc = "done" => rows = cleanupRows(postprocess(decoded.rows).rows)

\* ─── Running postprocess on its own result ─────────────────────────────

C20_OnlyNotesGrow ==
    pc = "postprocessed twice" =>
        /\ Len(rows) = Len(decoded.rows)
        /\ \A i \in 1..Len(rows) : rows[i] = [decoded.rows[i] EXCEPT !.notes = rows[i].notes]

\* ─── Confidence scoring (part_005 lines 941-959) ───────────────────────

\* which of the four stored dimensions a row carries
ScoreDims ==
    {[l |-> << >>, w |-> << >>, h |-> << >>, d |-> << >>],
     [l |-> <<"1", "0", "0", "0">>, w |-> << >>, h |-> << >>, d |-> << >>],
     [l |-> << >>, w |-> <<"9", "0", "0">>, h |-> << >>, d |-> << >>],
     [l |-> << >>, w |-> << >>, h |-> <<"7", "5", "0">>, d |-> << >>],
     [l |-> << >>, w |-> << >>, h |-> << >>, d |-> <<"5", "5", "0">>]}

\* material code and material name
ScoreMaterials ==
    {[c |-> << >>, m |-> << >>], [c |-> <<"PL-01">>, m |-> << >>],
     [c |-> << >>, m |-> <<"laminate">>]}

\* rows as decodeToon returns them, with and without a confidence written by
\* the generator
ScoreRows ==
    {RowWith([item_id |-> <<"A">>, item_type |-> t, description |-> desc,
              room |-> <<"Lobby">>, qty |-> <<"1">>, unit |-> <<"EA">>,
              length_mm |-> dim.l, width_mm |-> dim.w, height_mm |-> dim.h,
              depth_mm |-> dim.d, material_code |-> mat.c, material |-> mat.m,
              sheet_ref |-> ref, confidence |-> conf]) :
        t \in {<< >>, <<"base_cabinet">>}, dim \in ScoreDims,
        mat \in ScoreMaterials, ref \in {<< >>, <<"A7.15">>},
        desc \in {<< >>, <<"desk">>, <<"reception", SP, "desk">>},
        conf \in {<< >>, <<"low">>, <<"high">>}}

InitScore ==
    /\ pc = "decoded"
    /\ decoded \in {[ok |-> TRUE, error |-> "", rows |-> <<r>>] : r \in ScoreRows}
    /\ rows = << >>
    /\ schema = MW_ITEM_SCHEMA_V14
    /\ toon = << >>
    /\ valid = "unset"
    /\ response = << >>
    /\ warnings = << >>
    /\ GroupIdle

\* part_005 line 977: scoreConfidence(processed)
ScoreConfidence ==
    /\ pc = "decoded"
    /\ rows' = scoreConfidence(decoded.rows)
    /\ pc' = "scored"
    /\ UNCHANGED <<groupVars, schema, toon, valid, decoded, response, warnings>>

NextScore == ScoreConfidence

SpecScore == InitScore /\ [][NextScore]_vars

\* the number of the five factors that hold for a row, the dimension factor
\* given as an argument
FactorCount(row, hasDimension) ==
    LET B(b) == IF b THEN 1 ELSE 0
    IN  B(row.item_type # << >>) + B(hasDimension)
        + B(row.material_code # << >> \/ row.material # << >>)
        + B(row.sheet_ref # << >>) + B(StrLen(row.description) > 5)

LevelOf(count) ==
    IF count >= 4 THEN <<"high">> ELSE IF count = 3 THEN <<"medium">> ELSE <<"low">>

AnyDimension(row) ==
    \/ row.length_mm # << >> \/ row.width_mm # << >>
    \/ row.height_mm # << >> \/ row.depth_mm # << >>

ScoredBy(HasDimension(_)) ==
    pc = "scored" =>
        \A i \in 1..Len(rows) :
            LET before == decoded.rows[i]
            IN  IF before.confidence # << >> THEN rows[i] = before
                ELSE rows[i] = [before EXCEPT !.confidence =
                                   LevelOf(FactorCount(before, HasDimension(before)))]

\* C21: a row with an explicit confidence is returned unchanged; a row
\* without one gets high when at least 4 of the five factors hold (item type,
\* any of its dimensions, a material, a sheet reference, a description of
\* more than 5 characters), medium with exactly 3, low otherwise.
C21_ConfidenceScoring == ScoredBy(AnyDimension)

\* the dimension factor the code has: length, width or height, not depth
LengthWidthOrHeight(row) ==
    row.length_mm # << >> \/ row.width_mm # << >> \/ row.height_mm # << >>

C21_DepthNotCounted == ScoredBy(LengthWidthOrHeight)

\* ─── Derived quantities (part_005 lines 848-877) ───────────────────────

AreaTypes ==
    {<<"countertop">>, <<"decorative_panel">>, <<"rubber_base">>, <<"trim">>,
     <<"hinge">>}

\* rows as they reach calculateAreas: a length, a width and a height that are
\* written or not, and notes that are empty or already annotated
AreaRows ==
    {RowWith([item_id |-> <<"A">>, item_type |-> t, description |-> <<"desk">>,
              room |-> <<"Lobby">>, qty |-> <<"2">>, unit |-> <<"EA">>,
              length_mm |-> l, width_mm |-> w, height_mm |-> h,
              depth_mm |-> <<"5", "5", "0">>, notes |-> n]) :
        t \in AreaTypes, l \in {<< >>, <<"1", "0", "0", "0">>},
        w \in {<< >>, <<"6", "0", "0">>}, h \in {<< >>, <<"7", "5", "0">>},
        n \in {<< >>, <<"field", SP, "verify">>}}

\* a second row of the list
AreaSeconds ==
    {RowWith([item_id |-> <<"B">>, item_type |-> <<"countertop">>,
              description |-> <<"top">>, room |-> <<"Lobby">>, qty |-> <<"1">>,
              unit |-> <<"EA">>, length_mm |-> <<"1", "0", "0", "0">>,
              width_mm |-> w]) : w \in {<< >>, <<"6", "0", "0">>}}

InitArea ==
    /\ pc = "decoded"
    /\ decoded \in {[ok |-> TRUE, error |-> "", rows |-> rs] :
                        rs \in {<<r>> : r \in AreaRows}
                               \cup {<<r, q>> : r \in AreaRows, q \in AreaSeconds}}
    /\ rows = << >>
    /\ schema = MW_ITEM_SCHEMA_V14
    /\ toon = << >>
    /\ valid = "unset"
    /\ response = << >>
    /\ warnings = << >>
    /\ GroupIdle

\* part_005 line 974: calculateAreas(processed)
CalculateAreas ==
    /\ pc = "decoded"
    /\ rows' = calculateAreas(decoded.rows)
    /\ pc' = "calculated"
    /\ UNCHANGED <<groupVars, schema, toon, valid, decoded, response, warnings>>

NextArea == CalculateAreas

SpecArea == InitArea /\ [][NextArea]_vars

\* C22: the derived-quantities step returns every row with its stored
\* length, width, height, depth, quantity, unit and every other field as
\* they were; only notes may change, by an annotation added at its end.
C22_DerivedFrame ==
    pc = "calculated" =>
        /\ Len(rows) = Len(decoded.rows)
        /\ \A i \in 1..Len(rows) :
              /\ rows[i] = [decoded.rows[i] EXCEPT !.notes = rows[i].notes]
              /\ PrefixOf(decoded.rows[i].notes, rows[i].notes)

\* a countertop with length and width whose notes got the area annotation
C22_Witness ==
    /\ pc = "calculated"
    /\ \E i \in 1..Len(rows) :
          /\ TypeIncludes(rows[i], "countertop")
          /\ rows[i].length_mm = <<"1", "0", "0", "0">>
          /\ rows[i].width_mm = <<"6", "0", "0">>
          /\ decoded.rows[i].notes # << >>
          /\ rows[i].notes = decoded.rows[i].notes \o CalcNote(600000, 92903, "SF]")

\* ─── Leaked closed-vocabulary values through the pipeline ──────────────

ConfidenceLeakColumns == {"material_code", "material", "sheet_ref"}
DimensionLeakColumns == {"width_mm", "depth_mm", "height_mm"}

\* the response decoded to one row and the pipeline returned one row
OneRowThrough == pc = "done" /\ Len(decoded.rows) = 1 /\ Len(rows) = 1

LeakedConfidence(row, c) == IsWordCI(Trim(row[c]), ConfidenceWords)
LeakedDimSource(row, c) == row[c] \in {<<w>> : w \in DimSourceWords}

\* C23: a confidence level found in the material code, material or sheet
\* reference column, and a dimension-provenance value found in a dimension
\* column, is removed from that column and is the value of the row's own
\* confidence or dim_source column in the rows the pipeline returns.
C23_LeakageRelocated ==
    OneRowThrough =>
        /\ \A c \in ConfidenceLeakColumns :
              LeakedConfidence(decoded.rows[1], c) =>
                  /\ rows[1][c] = << >>
                  /\ LowerStr(rows[1].confidence) = LowerStr(Trim(decoded.rows[1][c]))
        /\ \A c \in DimensionLeakColumns :
              LeakedDimSource(decoded.rows[1], c) =>
                  /\ rows[1][c] = << >>
                  /\ rows[1].dim_source = decoded.rows[1][c]

\* the leaked value is taken out of the wrong column
C23_LeakageRemoved ==
    OneRowThrough =>
        /\ \A c \in ConfidenceLeakColumns :
              LeakedConfidence(decoded.rows[1], c) => rows[1][c] # decoded.rows[1][c]
        /\ \A c \in DimensionLeakColumns :
              LeakedDimSource(decoded.rows[1], c) => rows[1][c] # decoded.rows[1][c]

\* a leaked dimension-provenance value is in no column of the returned row
C23_DimSourceDiscarded ==
    OneRowThrough =>
        \A c \in DimensionLeakColumns :
            LeakedDimSource(decoded.rows[1], c) =>
                \A k \in V14Columns : rows[1][k] # decoded.rows[1][c]

\* ─── Dimension scanner: feet-inches spans and bare inches ──────────────

\* feet-inches dimensions as drawn, one of them above 50 feet, or none
ScanFeetInches ==
    {<< >>,
     <<"3", "'", "-", "1", "0", QUOTE>>,
     <<"4", "'", "-", "5", SP, "1", "/", "2", QUOTE>>,
     <<"6", "0", "'", "-", "0", SP, "1", "/", "2", QUOTE>>}

\* bare-inches dimensions, or none
ScanInches ==
    {<< >>, <<"1", "0", QUOTE>>, <<"2", "4", QUOTE>>, <<"2", QUOTE>>,
     <<"3", "4", ".", "5", QUOTE>>}

ScanBy == <<SP, "x", SP>>

\* one line of a drawing: a feet-inches dimension and one or two bare-inches
\* dimensions, in either order
ScanLines ==
    {<<"W", SP>> \o ft \o ScanBy \o a \o ScanBy \o b :
        ft \in ScanFeetInches, a \in ScanInches, b \in {<< >>, <<"2", "4", QUOTE>>}}
    \cup
    {<<"W", SP>> \o a \o ScanBy \o ft \o ScanBy \o b :
        ft \in ScanFeetInches, a \in ScanInches, b \in {<< >>, <<"2", "4", QUOTE>>}}

InitScan ==
    /\ pc = "preprocess"
    /\ doc \in ScanLines
    /\ pages = << >>
    /\ pageIdx = 0
    /\ roomMap = << >>
    /\ bestRoom = ""
    /\ roomInfos = << >>
    /\ parsed = << >>
    /\ hints = << >>
    /\ ServiceIdle
    /\ CodecIdle

SpecScan == InitScan /\ [][NextHints]_vars

Overlaps(m, s) == m.first <= s.last /\ s.first <= m.last

\* the hint of the bare-inches match m
bareHint(line, lineNo, m) ==
    [raw |-> Trim(SubSeq(line, m.first, m.last)),
     inches |-> parseFloat(simpleInAt(line, m.first).number),
     mm |-> inchesToMm(parseFloat(simpleInAt(line, m.first).number)),
     context |-> contextOf(line, m.first, m.last),
     line |-> lineNo]

\* the bare-inches hints of a scanner that excludes by span: one for every
\* bare-inches match of a size between 0.25 and 120 inches that overlaps no
\* feet-inches match of the line
spanExcluded(line, lineNo) ==
    LET spans == ftInMatches(line, 1)
        ms == SelectSeq(simpleInMatches(line, 1), LAMBDA m :
                  /\ IsSimpleSize(parseFloat(simpleInAt(line, m.first).number))
                  /\ \A k \in 1..Len(spans) : ~Overlaps(m, spans[k]))
    IN  [k \in 1..Len(ms) |-> bareHint(line, lineNo, ms[k])]

\* the hints of line number i, in the order pushed
HintsOnLine(i) == SelectSeq(hints.dimensions, LAMBDA h : h.line = i)

\* those of them that the bare-inches loop pushed
BareHintsOnLine(i) ==
    LET line == Split(hints.cleanedText, NL)[i]
    IN  SubSeq(HintsOnLine(i), Len(ftInHints(line, i)) + 1, Len(HintsOnLine(i)))

\* C24: on every line the bare-inches pattern yields no hint from
\* characters inside a feet-inches match, and every bare-inches dimension
\* outside all feet-inches matches of the line is reported: the bare-inches
\* hints of a line are exactly those of the matches that overlap no
\* feet-inches span.
C24_SpanExclusion ==
    pc = "hints" =>
        \A i \in 1..Len(Split(hints.cleanedText, NL)) :
            BareHintsOnLine(i) = spanExcluded(Split(hints.cleanedText, NL)[i], i)

\* first half: no bare-inches hint but those of matches outside the spans
C24_NoneFromSpan ==
    pc = "hints" =>
        \A i \in 1..Len(Split(hints.cleanedText, NL)) :
            LET outside == spanExcluded(Split(hints.cleanedText, NL)[i], i)
            IN  /\ Len(BareHintsOnLine(i)) <= Len(outside)
                /\ \A k \in 1..Len(BareHintsOnLine(i)) :
                      \E j \in 1..Len(outside) : BareHintsOnLine(i)[k] = outside[j]

\* second half: every match outside the spans has its hint
C24_OutsideReported ==
    pc = "hints" =>
        \A i \in 1..Len(Split(hints.cleanedText, NL)) :
            LET outside == spanExcluded(Split(hints.cleanedText, NL)[i], i)
            IN  \A j \in 1..Len(outside) :
                    \E k \in 1..Len(BareHintsOnLine(i)) : BareHintsOnLine(i)[k] = outside[j]

\* ─── Page numbers given by parsePages ──────────────────────────────────

\* the text of a page as pdf.js gives it
PageBodies == {<<"Janitor">>, <<"Laundry", SP, "Janitor">>, <<"Lobby">>}

\* the markers of a pasted text: a page break and the numbers 1..MaxPages
MixMarkers == {"--- PAGE BREAK ---"} \cup {NumberedMarkers[k] : k \in 1..MaxPages}

\* texts as extractTextFromPdf builds them (part_000 lines 135-137): marker,
\* line break, page text, the pages joined by an empty line; the markers in
\* any order
MarkedTexts ==
    UNION {{Join([i \in 1..n |-> <<ms[i], NL>> \o ts[i]], <<NL, NL>>) :
                ms \in [1..n -> MixMarkers], ts \in [1..n -> PageBodies]} :
            n \in 1..MaxPages}

InitPages ==
    /\ pc = "parse"
    /\ doc \in MarkedTexts
    /\ pages = << >>
    /\ pageIdx = 0
    /\ roomMap = << >>
    /\ bestRoom = ""
    /\ roomInfos = << >>
    /\ parsed = << >>
    /\ hints = << >>
    /\ ServiceIdle
    /\ CodecIdle

NextPages == ParsePages

SpecPages == InitPages /\ [][NextPages]_vars

MarkersOf(text) == SelectSeq(text, LAMBDA w : w \in SplitMarkers)

\* the content after marker i
ContentAfter(text, i) == Trim(SplitPages(text)[2 * i + 1])

\* the markers are PAGE 1, PAGE 2, ... PAGE n in this order
IsNumberedText(text) ==
    /\ MarkersOf(text) # << >>
    /\ Len(MarkersOf(text)) <= Len(NumberedMarkers)
    /\ MarkersOf(text) = SubSeq(NumberedMarkers, 1, Len(MarkersOf(text)))

DistinctNumbers ==
    \A i, j \in 1..Len(pages) : i # j => pages[i].pageNum # pages[j].pageNum

\* C27: for a text of markers PAGE 1 ... PAGE n, each followed by content,
\* parsePages returns n pages and the content after marker i has pageNum i;
\* for any mix of numbered and PAGE BREAK markers no two returned pages have
\* the same page number.
C27_PageNumbering ==
    pc = "group" =>
        /\ IsNumberedText(doc) =>
              pages = [i \in 1..Len(MarkersOf(doc)) |->
                          [pageNum |-> i, text |-> ContentAfter(doc, i)]]
        /\ DistinctNumbers

\* what parsePages does with PAGE 1 ... PAGE n when every content is longer
\* than 5 characters: the content after marker i has pageNum i + 1
C27_OneAhead ==
    (/\ pc = "group"
     /\ IsNumberedText(doc)
     /\ \A i \in 1..Len(MarkersOf(doc)) : StrLen(ContentAfter(doc, i)) > 5)
    => pages = [i \in 1..Len(MarkersOf(doc)) |->
                   [pageNum |-> i + 1, text |-> ContentAfter(doc, i)]]

\* the numbers are distinct when the markers are PAGE 1 ... PAGE n
C27_NumberedDistinct == pc = "group" /\ IsNumberedText(doc) => DistinctNumbers

\* the second half of C27 alone
C27_MixedDistinct == pc = "group" => DistinctNumbers

\* ─── Project context: the material legend (handler lines 81-133) ───────

\* one character per symbol
Chars(w) ==
    CASE w = "MATERIAL LEGEND" ->
            <<"M", "A", "T", "E", "R", "I", "A", "L", SP, "L", "E", "G", "E", "N", "D">>
      [] w = "FINISH SCHEDULE" ->
            <<"F", "I", "N", "I", "S", "H", SP, "S", "C", "H", "E", "D", "U", "L", "E">>
      [] w = "Wilsonart" -> <<"W", "i", "l", "s", "o", "n", "a", "r", "t">>
      [] w = "Solar Oak" -> <<"S", "o", "l", "a", "r", SP, "O", "a", "k">>
      [] w = "Corian" -> <<"C", "o", "r", "i", "a", "n">>
      [] w = "Glacier" -> <<"G", "l", "a", "c", "i", "e", "r">>
      [] w = "PL-01" -> <<"P", "L", "-", "0", "1">>
      [] w = "PL-02" -> <<"P", "L", "-", "0", "2">>
      [] w = "SS-1B" -> <<"S", "S", "-", "1", "B">>
      [] w = "7816-60" -> <<"7", "8", "1", "6", "-", "6", "0">>
      [] w = "base cabinet" -> <<"b", "a", "s", "e", SP, "c", "a", "b", "i", "n", "e", "t">>
      [] w = "reception desk" ->
            <<"r", "e", "c", "e", "p", "t", "i", "o", "n", SP, "d", "e", "s", "k">>
      [] w = "stereo cabinet" ->
            <<"s", "t", "e", "r", "e", "o", SP, "c", "a", "b", "i", "n", "e", "t">>
      [] w = "laminate top" -> <<"l", "a", "m", "i", "n", "a", "t", "e", SP, "t", "o", "p">>
      [] w = "Plywood" -> <<"P", "l", "y", "w", "o", "o", "d">>

\* the headings of legendPatterns, the blanks between the words optional
legendHeadings ==
    <<<<[gap |-> "", alts |-> {<<"f", "i", "n", "i", "s", "h">>}],
        [gap |-> "*", alts |-> {<<"m", "a", "t", "e", "r", "i", "a", "l">>}],
        [gap |-> "*", alts |-> {<<"s", "e", "l", "e", "c", "t", "i", "o", "n", "s">>}]>>,
      <<[gap |-> "", alts |-> {<<"m", "a", "t", "e", "r", "i", "a", "l">>}],
        [gap |-> "*", alts |-> {<<"l", "e", "g", "e", "n", "d">>}]>>,
      <<[gap |-> "", alts |-> {<<"f", "i", "n", "i", "s", "h">>}],
        [gap |-> "*", alts |-> {<<"s", "c", "h", "e", "d", "u", "l", "e">>}]>>>>

\* the lookahead that ends the block at position p: an empty line, three
\* dashes, the end of the text and, behind the first heading only, three
\* numbers in a row
BlockEndsAt(s, p, k) ==
    \/ p > Len(s)
    \/ CharAt(s, p, NL) /\ CharAt(s, p + 1, NL)
    \/ CharAt(s, p, "-") /\ CharAt(s, p + 1, "-") /\ CharAt(s, p + 2, "-")
    \/ /\ k = 1
       /\ LET a == DigitsEnd(s, p)
              b == SpacesEnd(s, a + 1)
              c == DigitsEnd(s, b + 1)
              d == SpacesEnd(s, c + 1)
          IN  a >= p /\ b >= a + 1 /\ c >= b + 1 /\ d >= c + 1 /\ DigitsEnd(s, d + 1) >= d + 1

\* allText.match(legendPatterns[k])[1]: the text behind the first heading,
\* after [;:\s]*, up to the lookahead; found FALSE when there is no heading
legendBlock(s, k) ==
    LET at == {i \in 1..Len(s) : MatchesAt(s, i, legendHeadings[k])}
        h == MatchLast(s, MinOf(at), legendHeadings[k])
        skip == MinOf({p \in (h + 1)..(Len(s) + 1) :
                         p > Len(s) \/ s[p] \notin Whitespace \cup {";", ":"}})
        end == MinOf({p \in skip..(Len(s) + 1) : BlockEndsAt(s, p, k)})
    IN  IF at = {} THEN [found |-> FALSE, text |-> << >>]
        ELSE [found |-> TRUE, text |-> SubSeq(s, skip, end - 1)]

\* the prefixes of entryRe
LegendPrefixes ==
    {<<"P", "L">>, <<"S", "S">>, <<"F", "B">>, <<"3", "F">>, <<"W", "D">>, <<"G", "L">>,
     <<"R", "B">>, <<"M", "E", "L">>, <<"A", "L", "M">>, <<"W", "C">>, <<"S", "T">>,
     <<"M", "R">>, <<"Q", "Z">>, <<"G", "R">>, <<"C", "O", "R">>, <<"L", "N">>}

QuoteChars == {"'", QUOTE}

\* entryRe matched at i: code, separator, manufacturer, quoted product name
\* and catalog number
\*   ((?:PL|SS|...)-?\d*[A-Z]?)\s*[;:=\s]\s*(\w[\w\s&.]*?)\s*['"]([^'"\n]+)['"]?\s*(\S+)?
entryAt(s, i) ==
    With({p \in LegendPrefixes : MatchAtCI(s, i, p)}, LAMBDA pre :
    IF pre = {} THEN [ok |-> FALSE] ELSE
    With(i + Len(CHOOSE p \in pre : TRUE) - 1, LAMBDA e1 :
    With(IF CharAt(s, e1 + 1, "-") THEN e1 + 1 ELSE e1, LAMBDA a :
    With(DigitsEnd(s, a + 1), LAMBDA b :
    With(IF b + 1 <= Len(s) /\ IsLetter(s[b + 1]) THEN b + 1 ELSE b, LAMBDA c :
    \* \s*[;:=\s]\s*
    With(SpacesEnd(s, c + 1), LAMBDA w1 :
    With(IF w1 + 1 <= Len(s) /\ s[w1 + 1] \in {";", ":", "="} THEN w1 + 1 ELSE w1,
         LAMBDA w2 :
    With(SpacesEnd(s, w2 + 1) + 1, LAMBDA g :
    IF ~(g > c + 1 /\ g <= Len(s) /\ IsWordChar(s[g]) /\ s[g] \notin QuoteChars)
    THEN [ok |-> FALSE] ELSE
    \* (\w[\w\s&.]*?)\s*['"]: up to the first character that is none of \w\s&.
    With(MinOf({p \in g..(Len(s) + 1) :
                    p > Len(s)
                    \/ ~(IsWordChar(s[p]) \/ s[p] \in Whitespace \cup {"&", "."})
                    \/ s[p] \in QuoteChars}), LAMBDA stop :
    IF ~(stop <= Len(s) /\ s[stop] \in QuoteChars) THEN [ok |-> FALSE] ELSE
    \* ([^'"\n]+)
    With(MinOf({p \in (stop + 1)..(Len(s) + 1) :
                    p > Len(s) \/ s[p] \in QuoteChars \cup {NL}}) - 1, LAMBDA n :
    IF n < stop + 1 THEN [ok |-> FALSE] ELSE
    \* ['"]?\s*(\S+)?
    With(SpacesEnd(s, (IF n + 1 <= Len(s) /\ s[n + 1] \in QuoteChars THEN n + 1 ELSE n) + 1),
         LAMBDA t :
    [ok |-> TRUE, code |-> SubSeq(s, i, c),
     productName |-> Trim(SubSeq(s, stop + 1, n)),
     end |-> MaxOf({t} \cup {p \in (t + 1)..Len(s) :
                               \A j \in (t + 1)..p : s[j] \notin Whitespace})]
    )))))))))))

\* the while loop over entryRe.exec(legendBlock[1]) from position from on
RECURSIVE legendEntries(_, _)
legendEntries(block, from) ==
    With({i \in from..Len(block) : entryAt(block, i).ok}, LAMBDA at :
        IF at = {} THEN << >>
        ELSE With(entryAt(block, MinOf(at)), LAMBDA m :
                <<[code |-> m.code, productName |-> m.productName]>>
                \o legendEntries(block, m.end + 1)))

\* the loop over legendPatterns: the entries of the first pattern that has any
RECURSIVE legendFrom(_, _)
legendFrom(allText, k) ==
    IF k > Len(legendHeadings) THEN << >>
    ELSE With(legendBlock(allText, k), LAMBDA blk :
         With(IF blk.found THEN legendEntries(blk.text, 1) ELSE << >>, LAMBDA entries :
            IF entries # << >> THEN entries ELSE legendFrom(allText, k + 1)))

\* extractProjectContext(pages).materialLegend
materialLegend(ps) ==
    legendFrom(Join([i \in 1..Len(ps) |-> ps[i].text], <<NL>>), 1)

\* ─── The steps after cleanupRows (handler lines 931-1027) ──────────────

\* the words of the patterns below, one lower-case character per symbol
Spelled(w) ==
    CASE w = "stereo" -> <<"s", "t", "e", "r", "e", "o">>
      [] w = "equipment" -> <<"e", "q", "u", "i", "p", "m", "e", "n", "t">>
      [] w = "av" -> <<"a", "v">>
      [] w = "cabinet" -> <<"c", "a", "b", "i", "n", "e", "t">>
      [] w = "rack" -> <<"r", "a", "c", "k">>
      [] w = "enclosure" -> <<"e", "n", "c", "l", "o", "s", "u", "r", "e">>
      [] w = "by" -> <<"b", "y">>
      [] w = "others" -> <<"o", "t", "h", "e", "r", "s">>
      [] w = "nic" -> <<"n", "i", "c">>
      [] w = "not" -> <<"n", "o", "t">>
      [] w = "in" -> <<"i", "n">>
      [] w = "base" -> <<"b", "a", "s", "e">>
      [] w = "upper" -> <<"u", "p", "p", "e", "r">>
      [] w = "wall" -> <<"w", "a", "l", "l">>
      [] w = "tall" -> <<"t", "a", "l", "l">>
      [] w = "hung" -> <<"h", "u", "n", "g">>
      [] w = "counter" -> <<"c", "o", "u", "n", "t", "e", "r">>
      [] w = "top" -> <<"t", "o", "p">>
      [] w = "laminate" -> <<"l", "a", "m", "i", "n", "a", "t", "e">>
      [] w = "adjustable" -> <<"a", "d", "j", "u", "s", "t", "a", "b", "l", "e">>
      [] w = "fixed" -> <<"f", "i", "x", "e", "d">>
      [] w = "shelf" -> <<"s", "h", "e", "l", "f">>
      [] w = "frp" -> <<"f", "r", "p">>
      [] w = "fiberglass" -> <<"f", "i", "b", "e", "r", "g", "l", "a", "s", "s">>
      [] w = "granite" -> <<"g", "r", "a", "n", "i", "t", "e">>
      [] w = "stone" -> <<"s", "t", "o", "n", "e">>
      [] w = "3form" -> <<"3", "f", "o", "r", "m">>

\* a pattern of words with optional blanks (\s*) between them
Words(first, second) ==
    <<[gap |-> "", alts |-> {Spelled(w) : w \in first}],
      [gap |-> "*", alts |-> {Spelled(w) : w \in second}]>>

\* /a.*b/i.test(s)
TestThen(s, a, b) ==
    \E i \in 1..Len(s) :
        /\ MatchAtCI(s, i, Spelled(a))
        /\ \E j \in (i + Len(Spelled(a)))..Len(s) :
              /\ MatchAtCI(s, j, Spelled(b))
              /\ \A k \in (i + Len(Spelled(a)))..(j - 1) : s[k] # NL

\* /by\s*others|nic|not\s*in/i.test(desc)
byOthers(desc) ==
    \/ TestPattern(desc, Words({"by"}, {"others"}))
    \/ TestPattern(desc, <<[gap |-> "", alts |-> {Spelled("nic")}]>>)
    \/ TestPattern(desc, Words({"not"}, {"in"}))

\* /(?:wall.*hung|adjustable|fixed)\s*shelf/i.test(desc)
shelfNamed(desc) ==
    \/ TestPattern(desc, Words({"adjustable", "fixed"}, {"shelf"}))
    \/ \E i \in 1..Len(desc) :
          /\ MatchAtCI(desc, i, Spelled("wall"))
          /\ \E j \in (i + 4)..Len(desc) :
                /\ MatchAtCI(desc, j, Spelled("hung"))
                /\ \A k \in (i + 4)..(j - 1) : desc[k] # NL
                /\ MatchesAt(desc, j + 4, <<[gap |-> "*", alts |-> {Spelled("shelf")}]>>)

\* lines 934-955: a scope exclusion that is millwork gets its type back
reclassifyExclusion(row) ==
    LET desc == row.description
        typed(t) == [row EXCEPT !.item_type = <<t>>]
    IN  IF row.item_type # <<"scope_exclusion">> THEN row
        ELSE IF TestPattern(desc, Words({"stereo", "equipment", "av"},
                                        {"cabinet", "rack", "enclosure"}))
                /\ ~byOthers(desc)
        THEN typed("controls_cabinet")
        ELSE IF TestPattern(desc, Words({"base", "upper", "wall", "tall"}, {"cabinet"}))
                /\ ~byOthers(desc)
        THEN IF TestPattern(desc, <<[gap |-> "", alts |-> {Spelled("upper")}]>>)
                \/ TestThen(desc, "wall", "hung")
             THEN typed("upper_cabinet")
             ELSE IF TestPattern(desc, <<[gap |-> "", alts |-> {Spelled("tall")}]>>)
             THEN typed("tall_cabinet") ELSE typed("base_cabinet")
        ELSE IF (\/ TestPattern(desc, Words({"counter"}, {"top"}))
                 \/ TestPattern(desc, Words({"laminate"}, {"top"})))
                /\ ~byOthers(desc)
        THEN typed("countertop")
        ELSE IF shelfNamed(desc) /\ ~byOthers(desc)
        THEN IF TestPattern(desc, <<[gap |-> "", alts |-> {Spelled("adjustable")}]>>)
             THEN typed("adjustable_shelf") ELSE typed("fixed_shelf")
        ELSE row

\* codeMap of assignMaterialCodes as the list of its entries in key order:
\* the material hints, then the legend; a code that is there already keeps
\* its place and takes the new name
RECURSIVE putAll(_, _)
putAll(map, entries) ==
    IF entries = << >> THEN map
    ELSE LET e == Head(entries)
             at == {k \in 1..Len(map) : map[k].code = e.code}
         IN  putAll(IF e.code = << >> THEN map
                    ELSE IF at = {} THEN Append(map, e)
                    ELSE [map EXCEPT ![MinOf(at)] = e],
                    Tail(entries))

codeMapOf(matHints, legend) ==
    putAll(putAll(<< >>, [k \in 1..Len(matHints) |->
                            [code |-> matHints[k].code, name |-> <<matHints[k].fullName>>]]),
           [k \in 1..Len(legend) |->
                [code |-> legend[k].code,
                 name |-> IF legend[k].productName # << >> THEN legend[k].productName
                          ELSE legend[k].code]])

\* Object.keys(codeMap).filter(c => /^XX-/i.test(c))
codesOf(map, prefix) ==
    SelectSeq([k \in 1..Len(map) |-> map[k].code],
              LAMBDA c : MatchAtCI(c, 1, prefix \o <<"-">>))

\* the end of a material code that starts at i, 0 when there is none; whole
\* is TRUE for the pattern of the pre-scan (line 981), FALSE for the one of
\* the text search (line 1008, where PL takes no letter and GRANITE and
\* STONE are codes too); the end is at a word boundary
materialCodeEnd(s, i, whole) ==
    LET dash(p) == MatchAtCI(s, i, p \o <<"-">>) /\ DigitsEnd(s, i + 3) >= i + 3
        d == DigitsEnd(s, i + 3)
        letter == d + 1 <= Len(s) /\ IsLetter(s[d + 1])
        ends ==
            {e \in {d, d + 1} :
                /\ \/ dash(<<"p", "l">>) /\ (e = d \/ (whole /\ letter))
                   \/ dash(<<"s", "s">>) /\ (e = d \/ letter)
                   \/ dash(<<"w", "c">>) /\ (e = d \/ letter)
                   \/ dash(<<"f", "b">>) /\ e = d
                /\ AtBoundary(s, e + 1)}
            \cup {e \in (i + 4)..Len(s) :
                    /\ MatchAtCI(s, i, <<"m", "e", "l", "-">>)
                    /\ \A k \in (i + 4)..e : IsWordChar(s[k])
                    /\ AtBoundary(s, e + 1)}
            \cup {i + Len(Spelled(w)) - 1 :
                    w \in {x \in {"3form"} \cup (IF whole THEN {} ELSE {"granite", "stone"}) :
                            /\ MatchAtCI(s, i, Spelled(x))
                            /\ AtBoundary(s, i + Len(Spelled(x)))}}
    IN  IF ends = {} THEN 0 ELSE MaxOf(ends)

\* /^[A-Z0-9][-A-Z0-9_]*$/i.test(s)
codeShaped(s) ==
    /\ s # << >>
    /\ IsLetter(s[1]) \/ IsDigit(s[1])
    /\ \A k \in 1..Len(s) : IsLetter(s[k]) \/ IsDigit(s[k]) \/ s[k] \in {"-", "_"}

CabinetTypes ==
    {"base_cabinet", "upper_cabinet", "tall_cabinet", "cpu_shelf", "fixed_shelf",
     "adjustable_shelf", "drawer", "file_drawer", "trash_drawer", "safe_cabinet"}

\* the default of lines 1011-1022 for the item type t
defaultCode(row, map, combined) ==
    LET t == IF row.item_type = << >> THEN "" ELSE row.item_type[1]
        first(prefix) ==
            LET cs == codesOf(map, prefix)
                name == (CHOOSE e \in {map[k] : k \in 1..Len(map)} : e.code = cs[1]).name
            IN  IF cs = << >> THEN row
                ELSE [row EXCEPT !.material_code = cs[1],
                                 !.material = IF @ # << >> THEN @ ELSE name]
    IN  IF t \in CabinetTypes THEN first(<<"p", "l">>)
        ELSE IF t \in {"countertop", "transaction_top"} THEN first(<<"s", "s">>)
        ELSE IF t = "decorative_panel"
                /\ \E w \in {"frp", "fiberglass"} :
                        TestPattern(combined, <<[gap |-> "", alts |-> {Spelled(w)}]>>)
        THEN first(<<"w", "c">>)
        ELSE IF t = "rubber_base" THEN first(<<"f", "b">>)
        ELSE IF t = "substrate"
        THEN [row EXCEPT !.material_code = IF @ # << >> THEN @ ELSE <<"P", "L", "Y">>,
                         !.material = IF @ # << >> THEN @
                                      ELSE <<"P", "l", "y", "w", "o", "o", "d">>]
        ELSE row

\* the body of the row loop of assignMaterialCodes (lines 976-1022)
assignMaterialCode(row, map) ==
    LET matField == Trim(row.material)
        mcField == Trim(row.material_code)
        cleared == IF mcField # << >> THEN [row EXCEPT !.material_code = << >>] ELSE row
        combined == UpperStr(row.description \o <<SP>> \o row.material \o <<SP>> \o row.notes)
        inText == {k \in 1..Len(map) : IsInfix(UpperStr(map[k].code), combined)}
        at == {i \in 1..Len(combined) :
                AtBoundary(combined, i) /\ materialCodeEnd(combined, i, FALSE) > 0}
    IN  IF row.item_type \in {<<"scope_exclusion">>, <<"assembly">>} THEN row
        ELSE IF /\ matField # << >>
                /\ materialCodeEnd(matField, 1, TRUE) = Len(matField)
                /\ Len(mcField) <= 3
        THEN [row EXCEPT !.material_code = UpperStr(matField), !.material = mcField]
        ELSE IF /\ Len(mcField) >= 3 /\ Len(mcField) <= 15 /\ codeShaped(mcField)
                /\ Text(mcField) \notin VALID_ITEM_TYPES
        THEN row
        ELSE IF inText # {}
        THEN [cleared EXCEPT !.material_code = map[MinOf(inText)].code,
                             !.material = IF @ # << >> THEN @ ELSE map[MinOf(inText)].name]
        ELSE IF at # {}
        THEN [cleared EXCEPT !.material_code =
                SubSeq(combined, MinOf(at), materialCodeEnd(combined, MinOf(at), FALSE))]
        ELSE defaultCode(cleared, map, combined)

\* assignMaterialCodes(cleanedRows, hints.materials, ctx.materialLegend)
assignMaterialCodes(rs, matHints, legend) ==
    [i \in 1..Len(rs) |-> assignMaterialCode(rs[i], codeMapOf(matHints, legend))]

\* lines 931-1026 on the rows cleanupRows returned
finishRows(rs, roomName, matHints, legend) ==
    assignMaterialCodes(
        [i \in 1..Len(rs) |-> reclassifyExclusion([rs[i] EXCEPT !.room = roomName])],
        matHints, legend)

\* ─── The assemblies and stats of the response (part_005 lines 881-993) ─

\* the substrings of an item type that rollUpAssemblies and the stats ask
\* for, beyond those of TypeWords
RollUpWords(w) ==
    CASE w \in {"base_cabinet", "upper_cabinet", "tall_cabinet", "controls_cabinet",
                "safe_cabinet"} -> {"cabinet"}
      [] w \in {"reception_desk", "desk"} -> {"desk"}
      [] w \in {"concealed_hinge", "piano_hinge", "hinge"} -> {"hinge"}
      [] w = "grommet" -> {"grommet"}
      [] w \in {"adjustable_shelf", "fixed_shelf", "cpu_shelf"} -> {"shelf"}
      [] w = "hardware" -> {"hardware"}
      [] OTHER -> {}

\* type.includes(word)
typeHas(row, word) ==
    \/ TypeIncludes(row, word)
    \/ \E i \in 1..Len(row.item_type) : word \in RollUpWords(Lower(row.item_type[i]))

\* String(row.assembly_id || "NONE")
assemblyIdOf(row) == IF row.assembly_id = << >> THEN <<"NONE">> ELSE row.assembly_id

\* parseFloat of the number of String(c.notes).match(/Calc:\s*([\d.]+)\s*SF/),
\* in tenths, for a number with one decimal as toFixed(1) writes it; 0 when
\* the notes have no such text
calcSfTenths(notes) ==
    With({i \in 1..Len(notes) :
            /\ notes[i] = "[Calc:"
            /\ \E e \in (SpacesEnd(notes, i + 1) + 1)..Len(notes) :
                  /\ \A k \in (SpacesEnd(notes, i + 1) + 1)..e :
                        IsDigit(notes[k]) \/ notes[k] = "."
                  /\ CharAt(notes, SpacesEnd(notes, e + 1) + 1, "SF")}, LAMBDA at :
    IF at = {} THEN 0 ELSE
    With(SpacesEnd(notes, MinOf(at) + 1) + 1, LAMBDA from :
    With(DigitsEnd(notes, from), LAMBDA whole :
        10 * DigitsVal(SubSeq(notes, from, whole))
        + (IF CharAt(notes, whole + 1, ".") /\ whole + 2 <= Len(notes)
              /\ IsDigit(notes[whole + 2])
           THEN DigitVal(notes[whole + 2]) ELSE 0))))

\* the non-empty values, each once, in the order of first occurrence
Distinct(values) ==
    SelectSeq([i \in 1..Len(values) |->
                 IF \E j \in 1..(i - 1) : values[j] = values[i] THEN << >> ELSE values[i]],
              LAMBDA v : v # << >>)

RECURSIVE SumOf(_)
SumOf(ns) == IF ns = << >> THEN 0 ELSE Head(ns) + SumOf(Tail(ns))

\* the summary rollUpAssemblies pushes for the assembly id aId;
\* totalCountertopSf is in tenths of a square foot, sections is the set of
\* the sorted list
assemblySummary(rs, aId) ==
    With(SelectSeq(rs, LAMBDA r : assemblyIdOf(r) = aId), LAMBDA components :
    LET cabinet(c) == typeHas(c, "cabinet") \/ typeHas(c, "desk")
        countertop(c) == ~cabinet(c) /\ typeHas(c, "countertop")
        hardware(c) ==
            /\ ~cabinet(c) /\ ~typeHas(c, "countertop")
            /\ \E w \in {"hinge", "grommet", "shelf", "hardware"} : typeHas(c, w)
        trimPart(c) ==
            /\ ~cabinet(c) /\ ~typeHas(c, "countertop")
            /\ ~\E w \in {"hinge", "grommet", "shelf", "hardware"} : typeHas(c, w)
            /\ \E w \in {"trim", "panel", "channel", "base"} : typeHas(c, w)
        count(P(_)) == Len(SelectSeq(components, P))
    IN  [assemblyId |-> aId,
         assemblyName |-> IF components[1].assembly_name # << >>
                          THEN components[1].assembly_name ELSE <<"Unknown Assembly">>,
         assemblyType |-> IF components[1].item_type # << >>
                          THEN components[1].item_type ELSE <<"custom_assembly">>,
         componentCount |-> Len(components),
         cabinetCount |-> count(cabinet),
         countertopCount |-> count(countertop),
         hardwareCount |-> count(hardware),
         trimPartCount |-> count(trimPart),
         materialCodes |-> Distinct([i \in 1..Len(components) |->
                                        components[i].material_code]),
         totalCountertopSf |->
            SumOf([i \in 1..Len(components) |->
                     IF typeHas(components[i], "countertop")
                     THEN calcSfTenths(components[i].notes) ELSE 0]),
         sections |-> {components[i].section_id : i \in 1..Len(components)} \ {<< >>}])

\* rollUpAssemblies: one summary per assembly id in the order of the Map,
\* none for "NONE"
rollUpAssemblies(rs) ==
    With(SelectSeq(Distinct([i \in 1..Len(rs) |-> assemblyIdOf(rs[i])]),
                   LAMBDA a : a # <<"NONE">>), LAMBDA ids :
        [k \in 1..Len(ids) |-> assemblySummary(rs, ids[k])])

\* r.width_mm || r.height_mm || r.length_mm
hasDimensions(r) == r.width_mm # << >> \/ r.height_mm # << >> \/ r.length_mm # << >>

\* r.material_code || r.material
hasMaterials(r) == r.material_code # << >> \/ r.material # << >>

\* the stats of postprocess (lines 983-993)
statsOf(processed, removed) ==
    [totalItems |-> Len(processed),
     withDimensions |-> Len(SelectSeq(processed, hasDimensions)),
     withMaterials |-> Len(SelectSeq(processed, hasMaterials)),
     withHardware |->
        Len(SelectSeq(processed, LAMBDA r :
                \E w \in {"hinge", "grommet", "shelf", "hardware"} : typeHas(r, w))),
     flaggedDefaults |->
        Len(SelectSeq(processed, LAMBDA r : r.dim_source = <<"default_FLAGGED">>)),
     duplicatesRemoved |-> removed]

\* ─── Extract mode for one room (handler lines 873-1029) ────────────────

\* the text of the room's page: a desk, with or without a laminate code
RoomPageBodies ==
    {Chars("reception desk"),
     Chars("reception desk") \o <<SP>> \o Chars("PL-02")}

\* the text of a page of another room: no legend, a laminate legend, a
\* legend of two entries
OtherPageBodies ==
    {Chars("Plywood"),
     Chars("MATERIAL LEGEND") \o <<NL>> \o Chars("PL-01") \o <<":", SP>>
        \o Chars("Wilsonart") \o <<SP, QUOTE>> \o Chars("Solar Oak") \o <<QUOTE, SP>>
        \o Chars("7816-60"),
     Chars("MATERIAL LEGEND") \o <<NL>> \o Chars("SS-1B") \o <<SP>> \o Chars("Corian")
        \o <<SP, "'">> \o Chars("Glacier") \o <<"'", NL>> \o Chars("PL-01") \o <<":", SP>>
        \o Chars("Wilsonart") \o <<SP, QUOTE>> \o Chars("Solar Oak") \o <<QUOTE>>}

\* req.body.text as extractTextFromPdf writes it: the room's page, then
\* the other page
RoomTexts ==
    {<<NumberedMarkers[1], NL>> \o p \o <<NL, NL, NumberedMarkers[2], NL>> \o q :
        p \in RoomPageBodies, q \in OtherPageBodies}

\* req.body.projectContext when the client sends one
ClientContexts ==
    {[materialLegend |-> <<[code |-> Chars("PL-02"), productName |-> Chars("Solar Oak")]>>]}

\* the extract requests: roomPages names the numbers parsePages gave the
\* room's page, or is empty; projectContext is a list of at most one context
RoomRequests ==
    [method : {"POST"}, mode : {"extract"},
     roomPages : {{p.pageNum} : p \in {parsePages(d)[1] : d \in RoomTexts}} \cup {{}},
     roomName : {"Lobby", ""},
     projectContext : {<< >>} \cup {<<c>> : c \in ClientContexts}]

\* the rows the generator writes for the room
RoomAnswerRows ==
    {RowWith([assembly_id |-> a, item_type |-> <<t>>, description |-> d,
              room |-> <<"Lobby">>, qty |-> <<"1">>, unit |-> <<"EA">>]) :
        a \in {<< >>, <<"A1">>},
        t \in {"base_cabinet", "countertop", "scope_exclusion"},
        d \in {Chars("reception desk"), Chars("stereo cabinet"), <<"EA">>}}

RoomAnswers == {HEADER_V14 \o <<NL>> \o Join(RowFields(r), <<";">>) : r \in RoomAnswerRows}

InitRoom ==
    /\ pc = "extract"
    /\ req \in RoomRequests
    /\ env = [ANTHROPIC_API_KEY |-> TRUE, OPENAI_API_KEY |-> FALSE]
    /\ res = NoResponse
    /\ ctx = NoContext
    /\ allAssemblies = << >>
    /\ doc \in RoomTexts
    /\ pages = << >> /\ pageIdx = 0 /\ roomMap = << >> /\ bestRoom = ""
    /\ roomInfos = << >> /\ parsed = << >> /\ hints = << >>
    /\ CallIdle
    /\ ClientIdle
    /\ schema = MW_ITEM_SCHEMA_V14
    /\ rows = << >> /\ toon = << >> /\ valid = "unset" /\ decoded = NoResult
    /\ response = << >> /\ warnings = << >>

\* lines 875-882: the pages of the room
roomPageTexts(ps, r) ==
    IF r.roomPages # {} THEN SelectSeq(ps, LAMBDA p : p.pageNum \in r.roomPages) ELSE ps

\* lines 876-882: the name of the room
roomNameOf(r) ==
    IF r.roomPages = {} THEN "Unclassified"
    ELSE IF r.roomName = "" THEN "Room" ELSE r.roomName

\* line 886: clientCtx || extractProjectContext(pages)
projectContextOf(r, ps) ==
    IF r.projectContext # << >> THEN r.projectContext[1]
    ELSE [materialLegend |-> materialLegend(ps)]

\* lines 873-887: the pages, the room's text, the context, the hints
RoomPrepare ==
    /\ pc = "extract"
    /\ pages' = parsePages(doc)
    /\ ctx' = projectContextOf(req, pages')
    /\ hints' = preprocess(combinedText(roomPageTexts(pages', req)))
    /\ pc' = "call"
    /\ UNCHANGED <<codecVars, callVars, clientVars, req, env, res, allAssemblies,
                   doc, pageIdx, roomMap, bestRoom, roomInfos, parsed>>

\* toon = await callAnthropic(...): the generator's answer for the room
RoomAnswer ==
    /\ pc = "call"
    /\ response' \in RoomAnswers
    /\ toon' = response'
    /\ pc' = "sanitize"
    /\ UNCHANGED <<groupVars, schema, rows, valid, decoded, warnings>>

\* lines 931-1035: the room name, the exclusions, the material codes and the
\* 200 response; rows keeps what cleanupRows returned, the response has the
\* rows as they are sent and the assemblies, stats and warnings of result,
\* which is what postprocess returned at line 926
FinishRows ==
    /\ pc = "done"
    /\ req # NoRequest
    /\ \E result \in {postprocess(decoded.rows)} :
        \E cleanedRows \in {finishRows(rows, <<roomNameOf(req)>>, hints.materials,
                                       ctx.materialLegend)} :
          res' = [status |-> 200, error |-> "",
                  rows |-> cleanedRows,
                  assemblies |-> rollUpAssemblies(result.rows),
                  stats |-> [statsOf(result.rows, result.removed)
                                EXCEPT !.totalItems = Len(cleanedRows)],
                  warnings |-> result.warnings]
    /\ pc' = "responded"
    /\ UNCHANGED <<codecVars, callVars, clientVars, hintVars, req, env, ctx, allAssemblies,
                   doc, pages, pageIdx, roomMap, bestRoom, roomInfos>>

NextRoom ==
    \/ RoomPrepare
    \/ RoomAnswer
    \/ Sanitize \/ CheckResponse \/ DecodeResponse \/ Postprocess \/ Cleanup
    \/ FinishRows

SpecRoom == InitRoom /\ [][NextRoom]_vars

\* two texts with the same pages for the room of request r
sameRoomPages(d1, d2, r) ==
    roomPageTexts(parsePages(d1), r) = roomPageTexts(parsePages(d2), r)

\* the rows the handler returns for the text d in place of doc, with the
\* generator's answer held fixed (rows is what cleanupRows made of it; the
\* hints are those of the room's pages)
returnedFor(d) ==
    finishRows(rows, <<roomNameOf(req)>>, hints.materials,
               projectContextOf(req, parsePages(d)).materialLegend)

\* C25: room isolation: the rows returned for a room are the same for every
\* text whose pages of that room are the same, whatever stands on the pages
\* of other rooms
C25_RoomIsolation ==
    (pc = "responded" /\ res.status = 200 /\ req.roomPages # {})
        => \A d \in RoomTexts : sameRoomPages(doc, d, req) => returnedFor(d) = res.rows

\* C25: with a project context sent by the client the returned rows do not
\* depend on the pages of other rooms
C25_IsolatedGivenContext ==
    (pc = "responded" /\ res.status = 200 /\ req.roomPages # {}
        /\ req.projectContext # << >>)
        => \A d \in RoomTexts : sameRoomPages(doc, d, req) => returnedFor(d) = res.rows

\* C25: the material hints of the request come from the room's pages only
C25_HintsFromRoomPages ==
    (pc = "responded" /\ res.status = 200 /\ req.roomPages # {})
        => \A d \in RoomTexts :
              sameRoomPages(doc, d, req)
                => preprocess(combinedText(roomPageTexts(parsePages(d), req))).materials
                     = hints.materials

\* a room's response whose rows took a material code
C25_Witness ==
    /\ pc = "responded" /\ res.status = 200 /\ req.roomPages # {}
    /\ \E i \in 1..Len(res.rows) : res.rows[i].material_code # << >>

\* ─── Repair of encoder output: sanitizeToon on encodeToon's text ───────

\* descriptions and notes of rows the encoder is given: plain, with the
\* separator, with a quote, with a line break, with comma-separated record
\* data, with many commas that are no record data
EncodableTexts ==
    {<<"desk">>,
     <<"desk", ";", "top">>,
     <<"desk", QUOTE>>,
     <<"desk", NL, "top">>,
     <<"desk", ",", "Laundry", ",", "1", ",", ",", ",", "EA", ",">>,
     <<"desk", ",", "top", ",", "a", ",", "b", ",", "c", ",", "d">>}

\* rows encodable in the V14 schema
EncodableRows ==
    {RowWith([item_type |-> <<"countertop">>, description |-> d, room |-> <<"Lobby">>,
              qty |-> <<"1">>, unit |-> <<"EA">>, notes |-> n]) :
        d \in EncodableTexts, n \in {<< >>, <<"x">>, <<"x", ";", "y">>}}

InitEncoded ==
    /\ pc = "encode"
    /\ schema = MW_ITEM_SCHEMA_V14
    /\ rows \in SeqsUpTo(EncodableRows, MaxRows) \ {<< >>}
    /\ toon = << >>
    /\ valid = "unset"
    /\ decoded = NoResult
    /\ response = << >>
    /\ warnings = << >>
    /\ GroupIdle

\* encodeToon(rows, MW_ITEM_SCHEMA_V14): the text that is given to the repair
EncodeRows ==
    /\ pc = "encode"
    /\ response' = encodeToon(rows, schema, DEFAULT_SEP)
    /\ toon' = response'
    /\ pc' = "sanitize"
    /\ UNCHANGED <<groupVars, schema, rows, valid, decoded, warnings>>

NextEncoded == EncodeRows \/ Sanitize \/ CheckResponse \/ DecodeResponse

SpecEncoded == InitEncoded /\ [][NextEncoded]_vars

\* sanitizeToon has run on the encoder's text
Repaired == pc \in {"validate", "decode", "rejected", "postprocess", "failed"}

\* C26: repair does not damage well-formed output: sanitizeToon returns the
\* text of encodeToon unchanged, and decoding after the repair gives what
\* decoding the encoder's text gives
C26_RepairKeepsEncoded ==
    /\ Repaired => toon = response
    /\ pc \in {"postprocess", "failed"} => decoded = decodeToon(response)

\* C26: the text is unchanged when no line of it has more separators than
\* the schema has columns and no description has the commas of record data
C26_PlainKept ==
    (Repaired
        /\ \A i \in 1..Len(rows) :
              /\ \A c \in V14Columns : ~Includes(rows[i][c], ";")
              /\ ~(CommaCount(rows[i].description) >= 5
                   /\ LooksLikeToonData(rows[i].description)))
        => toon = response

\* C26: a one-line row with the separator in a quoted field comes back from
\* the repair with another text
C26_SeparatorDamaged ==
    (Repaired /\ Len(rows) = 1
        /\ \E c \in V14Columns : Includes(rows[1][c], ";")
        /\ \A k \in V14Columns : ~Includes(rows[1][k], NL))
        => toon # response

\* ─── The room loop of the page: requests, retries, termination ─────────

\* every turn of the loop ends: the fetch answers or throws and the pauses
\* of lines 200 and 234 run out
SpecClientFair == SpecClient /\ WF_vars(NextClient)

\* how often the room of the given name was requested
FetchCount(name) == Cardinality({k \in 1..Len(fetches) : fetches[k] = name})

\* the requests, the retry counter and the results of the loop so far
RoomsAccounted ==
    pc \in {"extracting", "building"} =>
        /\ \A k \in 1..Len(roomInfos) :
              FetchCount(roomInfos[k].roomName) <= 1 + MAX_RETRIES_PER_ROOM
        /\ (pc = "extracting" /\ roomIndex < Len(roomInfos)
                /\ FetchCount(roomInfos[roomIndex + 1].roomName) = 0)
              => retryCount = 0
        /\ pc = "building" =>
              /\ Len(roomResults) = Len(roomInfos)
              /\ \A k \in 1..Len(roomInfos) : roomResults[k].room = roomInfos[k].roomName

\* C28: the client room loop terminates and accounts for every room: each
\* room is requested at most 1 + MAX_RETRIES_PER_ROOM times, the retry
\* counter is 0 at the first attempt of every room, the loop reaches the
\* build step, and roomResults then holds exactly one entry per room.
C28_LoopAccounts == []RoomsAccounted /\ <>(pc = "building")

\* the build step after two rooms, the first requested three times and
\* failed, the second requested once
C28_Witness ==
    /\ pc = "building"
    /\ Len(roomInfos) = 2
    /\ FetchCount(roomInfos[1].roomName) = 1 + MAX_RETRIES_PER_ROOM
    /\ FetchCount(roomInfos[2].roomName) = 1
    /\ roomResults[1].status = "failed"
    /\ Len(roomResults) = 2

\* ─── The 200 response of extract mode: rows, assemblies, stats ─────────

\* the handler has sent the 200 response of extract mode
RoomAnswered == pc = "responded" /\ res.status = 200 /\ "stats" \in DOMAIN res

RowsWith(P(_)) == Len(SelectSeq(res.rows, P))

\* C29: extract response consistency: each assembly summary's
\* componentCount is the number of returned rows with that assembly id, and
\* stats.withDimensions, stats.withMaterials and stats.duplicatesRemoved
\* agree with the returned rows (the rows decoded are the rows returned and
\* the duplicates removed)
C29_ResponseConsistent ==
    RoomAnswered =>
        /\ \A k \in 1..Len(res.assemblies) :
              res.assemblies[k].componentCount
                = RowsWith(LAMBDA r : r.assembly_id = res.assemblies[k].assemblyId)
        /\ res.stats.withDimensions = RowsWith(hasDimensions)
        /\ res.stats.withMaterials = RowsWith(hasMaterials)
        /\ Len(decoded.rows) = Len(res.rows) + res.stats.duplicatesRemoved

\* C29: stats.totalItems is the number of returned rows
C29_TotalItems == RoomAnswered => res.stats.totalItems = Len(res.rows)

\* C29: the component counts are right when cleanupRows dropped no row
C29_CountsWhenAllKept ==
    (RoomAnswered /\ Len(res.rows) = Len(decoded.rows) - res.stats.duplicatesRemoved)
        => \A k \in 1..Len(res.assemblies) :
              res.assemblies[k].componentCount
                = RowsWith(LAMBDA r : r.assembly_id = res.assemblies[k].assemblyId)

\* C29: the material count is right when the context and the hints have no
\* material code to assign
C29_MaterialsWhenNoCodes ==
    (RoomAnswered /\ ctx.materialLegend = << >> /\ hints.materials = << >>)
        => res.stats.withMaterials = RowsWith(hasMaterials)

\* ─── The v14.2 handler: every room in one request (part_004) ───────────

\* the text of a room's page
MultiBody(name) ==
    IF name = "Reception Desk"
    THEN Chars("reception desk") \o <<SP>> \o Chars("PL-01")
    ELSE Chars("base cabinet")

\* the room groups groupPagesByRoom returned (line 577): room k has page k
MultiRooms ==
    UNION {{[i \in 1..n |->
                [roomName |-> names[i],
                 roomId |-> <<"ROOM-">> \o PadStart3(NumStr(i)),
                 pages |-> <<[pageNum |-> i, text |-> MultiBody(names[i])]>>,
                 combinedText |->
                    combinedText(<<[pageNum |-> i, text |-> MultiBody(names[i])]>>)]] :
               names \in {f \in [1..n -> ClientRoomNames] :
                             \A a, b \in 1..n : f[a] = f[b] => a = b}} :
           n \in 1..MaxRooms}

\* the texts the generator answers with for a room: a row with or without
\* its room, the same in a fence, a text with another header
MultiAnswers ==
    LET lines == {Join(RowFields(RowWith([assembly_id |-> <<"A1">>,
                                          item_type |-> <<"countertop">>,
                                          description |-> <<"desk">>, room |-> rm,
                                          qty |-> <<"1">>, unit |-> <<"EA">>])), <<";">>) :
                    rm \in {<< >>, <<"Lobby">>}}
    IN  {HEADER_V14 \o <<NL>> \o l : l \in lines}
        \cup {<<FENCE, "toon", NL>> \o HEADER_V14 \o <<NL>> \o l \o <<NL, FENCE>> : l \in lines}
        \cup {<<"#", "TOON", SP, "v=1">> \o <<NL>> \o l : l \in lines}

\* the state at line 590, before the first turn of the room loop
InitMulti ==
    /\ pc = "rooms"
    /\ req = [method |-> "POST", mode |-> ""]
    /\ env = [ANTHROPIC_API_KEY |-> TRUE, OPENAI_API_KEY |-> FALSE]
    /\ res = NoResponse
    /\ ctx = NoContext
    /\ allAssemblies = << >>
    /\ roomInfos \in MultiRooms
    /\ doc = << >> /\ pages = << >> /\ pageIdx = 0 /\ roomMap = << >> /\ bestRoom = ""
    /\ parsed = << >> /\ hints = << >>
    /\ maxRetries = MaxRetriesV142
    /\ attempt = 0 /\ calls = << >> /\ waits = << >> /\ outcome = "pending"
    /\ ClientIdle
    /\ schema = MW_ITEM_SCHEMA_V14
    /\ rows = << >> /\ toon = << >> /\ valid = "unset" /\ decoded = NoResult
    /\ response = << >> /\ warnings = << >>

\* lines 626-628: the body of a fence in place of a text that is not valid
unfenceV142(text) ==
    IF ~isValidToon(text, HEADER_V14) /\ FenceBody(text) # << >>
    THEN Trim(FenceBody(text))
    ELSE text

\* the entry of roomResults for a room (lines 632-638 and 658-672)
multiResult(room, status, result, hs) ==
    IF status = "failed"
    THEN [room |-> room.roomName, roomId |-> room.roomId,
          pages |-> [k \in 1..Len(room.pages) |-> room.pages[k].pageNum],
          status |-> "failed", error |-> "Invalid TOON output"]
    ELSE [room |-> room.roomName, roomId |-> room.roomId,
          pages |-> [k \in 1..Len(room.pages) |-> room.pages[k].pageNum],
          status |-> "ok", itemCount |-> Len(result.rows),
          assemblyCount |-> Len(result.assemblies),
          hints |-> [dimensionCount |-> Len(hs.dimensions),
                     materialCount |-> Len(hs.materials),
                     assembly |-> hs.assembly]]

\* lines 590-620: a turn of the room loop up to the generator call: the
\* hints of the room's text, then callAnthropic from its first attempt
MultiRoomStart ==
    /\ pc = "rooms"
    /\ roomIndex < Len(roomInfos)
    /\ hints' = preprocess(roomInfos[roomIndex + 1].combinedText)
    /\ attempt' = 0 /\ calls' = << >> /\ waits' = << >> /\ outcome' = "pending"
    /\ pc' = "call"
    /\ UNCHANGED <<codecVars, clientVars, handlerVars, maxRetries,
                   doc, pages, pageIdx, roomMap, bestRoom, roomInfos, parsed>>

\* lines 620-673: the rest of the turn when the call returned: the answer
\* is no valid TOON and the room is skipped, or its rows, assemblies and
\* warnings are collected (the hyphen of the warning stands for the dash
\* of line 631)
MultiRoomDone ==
    /\ pc = "called"
    /\ outcome = "returned"
    /\ response' \in MultiAnswers
    /\ \E room \in {roomInfos[roomIndex + 1]} :
       \E text \in {unfenceV142(response')} :
        /\ toon' = text
        /\ valid' = isValidToon(text, HEADER_V14)
        /\ IF ~valid'
           THEN /\ allWarnings' = Append(allWarnings,
                        roomWarning(room, <<"LLM did not return valid TOON - skipped">>))
                /\ roomResults' = Append(roomResults,
                        multiResult(room, "failed", << >>, hints))
                /\ roomIndex' = roomIndex + 1
                /\ pc' = "rooms"
                /\ UNCHANGED <<decoded, rows, warnings, allRows, allAssemblies>>
           ELSE \E d \in {decodeToon(text)} :
                /\ decoded' = d
                /\ IF ~d.ok
                   THEN /\ outcome' = "thrown"
                        /\ pc' = "called"
                        /\ UNCHANGED <<rows, warnings, allRows, allAssemblies, allWarnings,
                                       roomResults, roomIndex>>
                   ELSE \E result \in {postprocess(d.rows)} :
                        \E summaries \in {rollUpAssemblies(result.rows)} :
                        /\ rows' = [k \in 1..Len(result.rows) |->
                                      [result.rows[k] EXCEPT
                                         !.room = IF @ # << >> THEN @
                                                  ELSE <<room.roomName>>]]
                        /\ warnings' = result.warnings
                        /\ allRows' = allRows \o rows'
                        /\ allAssemblies' = allAssemblies \o summaries
                        /\ allWarnings' = allWarnings \o
                              [k \in 1..Len(result.warnings) |->
                                  roomWarning(room, result.warnings[k])]
                        /\ roomResults' = Append(roomResults,
                              multiResult(room, "ok",
                                          [rows |-> result.rows, assemblies |-> summaries],
                                          hints))
                        /\ roomIndex' = roomIndex + 1
                        /\ pc' = "rooms"
    /\ IF pc' = "rooms" THEN outcome' = outcome ELSE TRUE
    /\ UNCHANGED <<schema, req, env, res, ctx, retryCount, fetches, maxRetries, attempt,
                   calls, waits, hintVars, doc, pages, pageIdx, roomMap, bestRoom,
                   roomInfos>>

\* lines 725-732: what was thrown inside the try block is answered with 500
MultiCaught ==
    /\ pc = "called"
    /\ outcome = "thrown"
    /\ res' = Response(500, "err.message")
    /\ pc' = "responded"
    /\ UNCHANGED <<codecVars, callVars, clientVars, hintVars, req, env, ctx, allAssemblies,
                   doc, pages, pageIdx, roomMap, bestRoom, roomInfos>>

\* r.hardware_type || r.hardware_spec
hasHardware(r) == r.hardware_type # << >> \/ r.hardware_spec # << >>

\* lines 675-724: the loop is over; the stats of all rows and the 200
\* response (pageCount, documentType and materialLegendCount come from
\* the passes before the loop and are left out)
MultiRespond ==
    /\ pc = "rooms"
    /\ roomIndex = Len(roomInfos)
    /\ res' = [status |-> 200, error |-> "",
               rows |-> allRows,
               assemblies |-> allAssemblies,
               rooms |-> roomResults,
               stats |-> [totalItems |-> Len(allRows),
                          withDimensions |-> Len(SelectSeq(allRows, hasDimensions)),
                          withMaterials |-> Len(SelectSeq(allRows, hasMaterials)),
                          withHardware |-> Len(SelectSeq(allRows, hasHardware)),
                          flaggedDefaults |->
                             Len(SelectSeq(allRows, LAMBDA r :
                                    r.dim_source = <<"default_FLAGGED">>)),
                          duplicatesRemoved |-> 0,
                          roomCount |-> Len(roomInfos)],
               warnings |-> allWarnings]
    /\ pc' = "responded"
    /\ UNCHANGED <<codecVars, callVars, clientVars, hintVars, req, env, ctx, allAssemblies,
                   doc, pages, pageIdx, roomMap, bestRoom, roomInfos>>

NextMulti ==
    \/ MultiRoomStart
    \/ CallReturns \/ CallRetried \/ CallThrows
    \/ MultiRoomDone
    \/ MultiCaught
    \/ MultiRespond

SpecMulti == InitMulti /\ [][NextMulti]_vars

\* C30: partial success in the v14.2 handler: the request is answered with
\* the rows, assemblies and warnings of the rooms that were extracted and a
\* result for every room, never with an error response because the
\* generator call of one room failed
C30_PartialSuccess ==
    pc = "responded" =>
        /\ res.status = 200
        /\ res.rows = allRows /\ res.assemblies = allAssemblies
        /\ res.warnings = allWarnings
        /\ Len(res.rooms) = Len(roomInfos)

\* C30: an error response is sent only when no row of an earlier room had
\* been collected
C30_NothingLost ==
    (pc = "responded" /\ res.status # 200) => allRows = << >>

\* C30: a room whose answer is no valid TOON is skipped with a warning that
\* names it; the 200 response has a result for every room and all that was
\* collected
C30_InvalidAnswerScoped ==
    (pc = "responded" /\ res.status = 200) =>
        /\ Len(res.rooms) = Len(roomInfos)
        /\ res.rows = allRows /\ res.assemblies = allAssemblies
        /\ \A k \in 1..Len(res.rooms) :
              /\ res.rooms[k].room = roomInfos[k].roomName
              /\ res.rooms[k].status = "failed" =>
                    \E j \in 1..Len(res.warnings) :
                        NamesRoom(res.warnings[j], res.rooms[k].room)

\* C30: the error response comes from a thrown generator call only
C30_ErrorFromThrow ==
    (pc = "responded" /\ res.status # 200) =>
        /\ outcome = "thrown"
        /\ ~calls[Len(calls)].ok
        /\ Len(roomResults) < Len(roomInfos)


====
